---------------------------- MODULE Spec2Model ----------------------------
(***************************************************************************)
(* State-machine model of the simulation and command-state engine of the  *)
(* Game scene (src/src/scenes/Game.ts, configuration src/src/variables.ts).*)
(*                                                                         *)
(* Numbers.  The scene computes in IEEE doubles; the model computes in     *)
(* integers:                                                               *)
(*   positions and distances   pixels                                      *)
(*   time, timers              milliseconds                                *)
(*   currentSpeed              1/1000 pixel per second                     *)
(*   angles                    1/1000 radian                               *)
(*   Cos, Sin                  1/1000                                      *)
(* A comparison of a distance with an integer threshold is made on the     *)
(* squared distance and is exact; a normalised vector times a length is    *)
(* rounded toward zero.                                                    *)
(***************************************************************************)
EXTENDS Integers, Sequences, FiniteSets, TLC

(***************************************************************************)
(* Bounds of the model.                                                    *)
(***************************************************************************)
\* this.scale.width and this.scale.height: the size of the browser window.
ScaleWidth == 400
ScaleHeight == 400
\* The clock (this.time.now) stops the model at MaxTime milliseconds.
MaxTime == 3000
\* A waypoint queue is not appended to beyond this length.
MaxWaypoints == 2
\* A ship starts a run with its full health or with 1..MaxWear health left.
MaxWear == 2
\* At most MaxCommands input handlers run in a behaviour.
MaxCommands == 3

(***************************************************************************)
(* Program constants.                                                      *)
(***************************************************************************)
PI == 3142
arriveThreshold == 3
separationMinDistance == 20
separationForce == 15
bulletSpeed == 200
bulletLifetime == 2000
damageEffectDuration == 500
defaultDamage == 10
targetingSnapRange == 50
targetingReleaseRange == 100
dragThreshold == 10
followOffsetDistance == -200
followSeedDistance == 80
followIndicatorOffset == 100
wanderStep == 100
wanderInterval == 30000
aiBoundsMargin == 50
dotRadius == 3
SatDir == 1000000

\* VARIABLES[type], with the live value cs of VARIABLES.corvette.speed.
ShipData(type, cs) ==
    CASE type = "corvette" ->
           [speed |-> cs, acceleration |-> 150, size |-> 24, health |-> 100,
            rotationSpeed |-> 200, fireRate1000 |-> 1000, damage |-> 1,
            range |-> 150, detectionRange |-> 0]
      [] type = "cruiser" ->
           [speed |-> 15, acceleration |-> 100, size |-> 24, health |-> 150,
            rotationSpeed |-> 500, fireRate1000 |-> 500, damage |-> 1,
            range |-> 200, detectionRange |-> 0]
      [] type = "enemy" ->
           [speed |-> 10, acceleration |-> 50, size |-> 24, health |-> 50,
            rotationSpeed |-> 500, fireRate1000 |-> 1000, damage |-> 1,
            range |-> 100, detectionRange |-> 200]

corvetteSpeedDefault == 30

(***************************************************************************)
(* Arithmetic helpers.                                                     *)
(***************************************************************************)
Null == <<>>

Abs(n) == IF n < 0 THEN -n ELSE n

Sign(n) == IF n > 0 THEN 1 ELSE IF n < 0 THEN -1 ELSE 0

Min(a, b) == IF a < b THEN a ELSE b

Max(a, b) == IF a > b THEN a ELSE b

\* Division rounding toward zero.
DivT(a, b) == IF a >= 0 THEN a \div b ELSE -((-a) \div b)

RECURSIVE SqrtIter(_, _, _)
SqrtIter(n, lo, hi) ==
    IF lo >= hi THEN lo
    ELSE LET mid == (lo + hi + 1) \div 2
         IN  IF mid * mid <= n THEN SqrtIter(n, mid, hi)
                               ELSE SqrtIter(n, lo, mid - 1)

\* floor(sqrt(n))
ISqrt(n) == SqrtIter(n, 0, 46340)

\* Phaser.Math.Vector2 as a pair <<x, y>>.
VSub(a, b) == <<a[1] - b[1], a[2] - b[2]>>

VAdd(a, b) == <<a[1] + b[1], a[2] + b[2]>>

Len2(v) == v[1] * v[1] + v[2] * v[2]

Dist2(a, b) == Len2(VSub(a, b))

\* Vector2.length / Vector2.distance, rounded down.
VLen(v) == ISqrt(Len2(v))

Dist(a, b) == VLen(VSub(a, b))

\* v.normalize().scale(k): the vector of length k along v; the zero vector
\* stays zero.
ScaleTo(v, k) ==
    LET l == VLen(v)
    IN  IF Len2(v) = 0 THEN <<0, 0>>
        ELSE IF v[1] = 0 THEN <<0, Sign(v[2]) * k>>
        ELSE IF v[2] = 0 THEN <<Sign(v[1]) * k, 0>>
        ELSE <<DivT(v[1] * k, Max(l, 1)), DivT(v[2] * k, Max(l, 1))>>

Clamp(lo, hi, x) == Max(lo, Min(hi, x))

TwoPI == 2 * PI

HalfPI == PI \div 2

\* Bhaskara's approximation of 1000*sin(x) for 0 <= x <= PI (milliradians).
SinHalf(x) ==
    LET p == (x * (PI - x)) \div 1000
        q == (PI * PI) \div 1000
    IN  (16000 * p) \div (5 * q - 4 * p)

\* Math.sin, Math.cos: argument in milliradians, value in 1/1000.
Sin(a) ==
    LET r == a % TwoPI
    IN  IF r <= PI THEN SinHalf(r) ELSE -SinHalf(r - PI)

Cos(a) == Sin(a + HalfPI)

\* atan(z/1000) in milliradians for 0 <= z <= 1000.
AtanUnit(z) == (785 * z + (273 * z * (1000 - z)) \div 1000) \div 1000

\* Math.atan2(y, x) in milliradians.
Atan2(y, x) ==
    LET a == Abs(y)
        b == Abs(x)
        base == IF a = 0 /\ b = 0 THEN 0
                ELSE IF a <= b THEN AtanUnit((a * 1000) \div b)
                ELSE HalfPI - AtanUnit((b * 1000) \div a)
    IN  IF x >= 0 THEN Sign(y) * base
        ELSE IF y >= 0 THEN PI - base
        ELSE -(PI - base)

\* approach(current, target, maxDelta)
approach(current, target, maxDelta) ==
    IF current < target THEN Min(current + maxDelta, target)
    ELSE IF current > target THEN Max(current - maxDelta, target)
    ELSE current

RECURSIVE WrapDown(_)
WrapDown(diff) == IF diff > PI THEN WrapDown(diff - TwoPI) ELSE diff

RECURSIVE WrapUp(_)
WrapUp(diff) == IF diff < -PI THEN WrapUp(diff + TwoPI) ELSE diff

\* approachRotation(current, target, maxDelta)
approachRotation(current, target, maxDelta) ==
    LET diff == WrapUp(WrapDown(target - current))
    IN  IF Abs(diff) < maxDelta THEN target
        ELSE current + Sign(diff) * maxDelta

\* Array.prototype.splice(i, 1) with a 1-based index: an index past the end
\* removes nothing.
Splice(s, i) ==
    IF i < 1 \/ i > Len(s) THEN s
    ELSE SubSeq(s, 1, i - 1) \o SubSeq(s, i + 1, Len(s))

\* Array.prototype.indexOf, 1-based; 0 when absent.
RECURSIVE IndexFrom(_, _, _)
IndexFrom(s, x, i) ==
    IF i > Len(s) THEN 0
    ELSE IF s[i] = x THEN i
    ELSE IndexFrom(s, x, i + 1)

IndexOf(s, x) == IndexFrom(s, x, 1)

Range(s) == {s[i] : i \in 1..Len(s)}

(***************************************************************************)
(* State.                                                                  *)
(***************************************************************************)
VARIABLES
    shipObjs,                \* the Ship objects, by identity (interface Ship)
    ships,                   \* this.ships: Ship[]
    selectedShips,           \* this.selectedShips: Set<Ship>, in insertion order
    enemyShips,              \* this.enemyShips: Ship[]
    bullets,                 \* this.bullets: [id, pos] per projectile object
    bulletVelocities,        \* this.bulletVelocities
    bulletTimers,            \* this.bulletTimers
    bulletShooters,          \* this.bulletShooters
    damageEffects,           \* this.damageEffects: position of each effect
    damageEffectTimers,      \* this.damageEffectTimers
    circularPaths,           \* this.circularPaths: Map<Ship, {center, radius, startAngle}>
    isBoxSelecting, boxStart, boxEnd,
    isRotating, rotationStartPos, rotationCurrentPos, rotationShip,
    isTargeting, targetedEnemy, targetingCircle,
    isWaypointLocked, lockedEnemy, lockedDistance, lockedWaypointPosition,
    enemyMovementTimers,     \* this.enemyMovementTimers: Map<Ship, number>
    enemyMovementDirections, \* this.enemyMovementDirections: Map<Ship, Vector2>
    now,                     \* this.time.now
    corvetteSpeed,           \* VARIABLES.corvette.speed
    \* What the last handler did (history, read by the properties only).
    lastOp,                  \* name of the last handler run
    commandCount,            \* number of input handlers run so far
    lastDelta,               \* delta of the last update()
    hits,                    \* hits applied by checkBulletCollisions in the last update()
    removed,                 \* projectiles spliced out of the arrays in the last update()
    tested,                  \* projectiles given a collision test in the last update()
    shots,                   \* tryShoot calls of the last update()
    destroyed,               \* destroyShip calls of the last update()
    frame                    \* parity of the number of update() calls so far

gestureVars ==
    <<isBoxSelecting, boxStart, boxEnd, isRotating, rotationStartPos,
      rotationCurrentPos, rotationShip, isTargeting, targetedEnemy,
      targetingCircle, isWaypointLocked, lockedEnemy, lockedDistance,
      lockedWaypointPosition>>

bulletVars == <<bullets, bulletVelocities, bulletTimers, bulletShooters>>

effectVars == <<damageEffects, damageEffectTimers>>

enemyMoveVars == <<enemyMovementTimers, enemyMovementDirections>>

logVars == <<lastDelta, hits, removed, tested, shots, destroyed, frame>>

vars ==
    <<shipObjs, ships, selectedShips, enemyShips, bulletVars, effectVars,
      circularPaths, gestureVars, enemyMoveVars, now, corvetteSpeed, lastOp,
      commandCount, logVars>>

(***************************************************************************)
(* Construction: create() and createShip().                                *)
(***************************************************************************)
\* Ship 1 and ship 2 are the corvettes, ship 3 is the enemy of create().
ShipIds == {1, 2, 3}

theEnemy == 3

ShipType(i) == IF i = theEnemy THEN "enemy" ELSE "corvette"

worldWidth == ScaleWidth * 3

worldHeight == ScaleHeight * 3

worldCenter == <<(ScaleWidth * 3) \div 2, (ScaleHeight * 3) \div 2>>

\* The ship positions of create().
CreatePositions ==
    <<VAdd(worldCenter, <<-60, -30>>),
      VAdd(worldCenter, <<40, 30>>),
      VAdd(worldCenter, <<0, 300>>)>>

\* createShip(type, x, y); h is the health the run starts the ship with and
\* goRot the rotation of its game object.
createShip(type, pos, h, goRot) ==
    [type |-> type,
     pos |-> pos,                 \* gameObject.x, gameObject.y
     goRot |-> goRot,             \* gameObject.rotation
     target |-> Null,
     pathStart |-> Null,
     waypoints |-> <<>>,
     waypointDirections |-> <<>>,
     waypointDots |-> <<>>,
     currentSpeed |-> 0,
     lastFireTime |-> 0,
     health |-> h,
     maxHealth |-> ShipData(type, corvetteSpeedDefault).health,
     rotation |-> -HalfPI,
     targetRotation |-> -HalfPI,
     followTarget |-> 0]

\* Unit vectors of initializeEnemyMovement (cos, sin of a random angle); the
\* model draws the four axis directions.
Directions == {<<1, 0>>, <<0, 1>>, <<-1, 0>>, <<0, -1>>}

(***************************************************************************)
(* update(): the steps of one frame.  A world w is a record of the fields  *)
(* the frame reads and writes; each operator below is one method, taking   *)
(* the world before the call and giving the world after it.                *)
(***************************************************************************)
\* updateWaypointDots(ship): one dot per waypoint, at the waypoint.
updateWaypointDots(sh) == [sh EXCEPT !.waypointDots = sh.waypoints]

ArriveKeepDirections(sh, target) ==
    LET wps == IF Len(sh.waypoints) > 0 THEN Tail(sh.waypoints) ELSE <<>>
        next == IF Len(wps) > 0 THEN Head(wps) ELSE Null
    IN  [sh EXCEPT !.pos = target,
                   !.targetRotation =
                       IF Len(sh.waypointDirections) > 0
                       THEN Head(sh.waypointDirections) ELSE @,
                   !.waypoints = wps,
                   !.waypointDots = wps,
                   !.pathStart = IF next # Null THEN target ELSE Null,
                   !.target = next]

\* The arrival block of moveToward: snap to the target, take the direction
\* stored with the reached waypoint, shift both arrays, return the next one.
Arrive(sh, target) ==
    LET wps == IF Len(sh.waypoints) > 0 THEN Tail(sh.waypoints) ELSE <<>>
        dirs == IF Len(sh.waypointDirections) > 0
                THEN Tail(sh.waypointDirections) ELSE <<>>
        next == IF Len(wps) > 0 THEN Head(wps) ELSE Null
    IN  [sh EXCEPT !.pos = target,
                   !.targetRotation =
                       IF Len(sh.waypointDirections) > 0
                       THEN Head(sh.waypointDirections) ELSE @,
                   !.waypoints = wps,
                   !.waypointDirections = dirs,
                   !.waypointDots = wps,
                   !.pathStart = IF next # Null THEN target ELSE Null,
                   !.target = next]

\* moveToward(ship, target, effectiveSpeed, delta); the value returned by the
\* method is the target field of the record returned here.
moveToward(sh, target, effectiveSpeed, delta) ==
    IF target = Null THEN [sh EXCEPT !.target = Null]
    ELSE
      LET current == sh.pos
          toTarget == VSub(target, current)
          distance2 == Len2(toTarget)
          step == (effectiveSpeed * delta) \div 1000000
          nextPos == VAdd(current, ScaleTo(toTarget, step))
      IN  IF distance2 < arriveThreshold * arriveThreshold
          THEN Arrive(sh, target)
          ELSE IF Dist2(nextPos, target) > distance2
          THEN Arrive(sh, target)
          ELSE [sh EXCEPT !.pos = nextPos, !.target = target]

\* The loop of applySeparationForce over this.ships from index i on:
\* <<separationVector (1/1000), nearbyShipsCount>>.
RECURSIVE SeparationSum(_, _, _)
SeparationSum(w, s, i) ==
    IF i > Len(w.ships) THEN <<<<0, 0>>, 0>>
    ELSE
      LET other == w.ships[i]
          rest == SeparationSum(w, s, i + 1)
          shipPos == w.shipObjs[s].pos
          otherPos == w.shipObjs[other].pos
          d2 == Dist2(shipPos, otherPos)
          distance == Dist(shipPos, otherPos)
          direction == ScaleTo(VSub(shipPos, otherPos), 1000)
          force == ((separationMinDistance - distance) * 1000)
                       \div separationMinDistance
          push == <<DivT(direction[1] * force, 1000),
                    DivT(direction[2] * force, 1000)>>
      IN  IF other # s
             /\ d2 < separationMinDistance * separationMinDistance
             /\ d2 > 0
          THEN <<VAdd(push, rest[1]), rest[2] + 1>>
          ELSE rest

\* applySeparationForce(ship, delta): the ship record after the nudge.
applySeparationForce(w, s, delta) ==
    LET sh == w.shipObjs[s]
        sum == SeparationSum(w, s, 1)
        moveDistance == (separationForce * delta) \div 1000
        newPos == VAdd(sh.pos, ScaleTo(sum[1], moveDistance))
    IN  IF sum[2] > 0
        THEN [sh EXCEPT !.pos = <<Clamp(0, worldWidth, newPos[1]),
                                  Clamp(0, worldHeight, newPos[2])>>]
        ELSE sh

\* The point a follower steers to: followOffsetDistance behind the followed
\* ship along its game object's rotation.
FollowPoint(ft, offset) ==
    <<ft.pos[1] - DivT(Cos(ft.goRot) * offset, 1000),
      ft.pos[2] - DivT(Sin(ft.goRot) * offset, 1000)>>

\* updateShip, the rotation block: the rotation approaches targetRotation.
turnShip(sh, shipData, delta) ==
    LET rotationDelta == (shipData.rotationSpeed * delta) \div 1000
        rot == approachRotation(sh.rotation, sh.targetRotation, rotationDelta)
    IN  [sh EXCEPT !.rotation = rot, !.goRot = rot]

\* updateShip, the speed block: currentSpeed approaches the desired speed.
accelerateShip(sh, shipData, delta) ==
    LET desired == IF sh.target # Null THEN shipData.speed * 1000 ELSE 0
        accel == (Max(sh.currentSpeed, desired) * 100) \div shipData.acceleration
    IN  [sh EXCEPT !.currentSpeed =
                       approach(@, desired, (accel * delta) \div 1000)]

\* updateShip, the follow block: the target of a follower is set behind the
\* followed ship.
followShip(w, sh) ==
    IF sh.followTarget # 0
    THEN [sh EXCEPT
            !.target = FollowPoint(w.shipObjs[sh.followTarget],
                                   followOffsetDistance),
            !.pathStart = IF Len(sh.waypoints) = 0 THEN sh.pos ELSE @]
    ELSE sh

\* updateShip: ship.target = moveToward(ship, ship.target, currentSpeed, delta)
moveShip(sh, delta) == moveToward(sh, sh.target, sh.currentSpeed, delta)

\* updateShip, the separation block; w is the world before the ship's update.
separateShip(w, s, sh, delta) ==
    IF Len(sh.waypoints) = 0 /\ sh.target = Null
    THEN applySeparationForce([w EXCEPT !.shipObjs[s] = sh], s, delta)
    ELSE sh

\* updateShip, the waypoint tracking block.
trackPath(sh) ==
    IF Len(sh.waypoints) > 0 /\ sh.pathStart = Null
    THEN [sh EXCEPT !.pathStart = sh.pos]
    ELSE sh

\* updateShip, the path clearing block.
clearPath(sh) ==
    IF Len(sh.waypoints) = 0
    THEN [sh EXCEPT !.target = Null, !.pathStart = Null, !.waypointDots = <<>>]
    ELSE sh

\* The ship record updateShip leaves.
updatedShip(w, s, sh, shipData, delta) ==
    clearPath(trackPath(separateShip(w, s,
        moveShip(followShip(w,
            accelerateShip(turnShip(sh, shipData, delta), shipData, delta)),
            delta),
        delta)))

updateShipPushing(w, s, delta) ==
    LET updated == updatedShip(w, s, w.shipObjs[s],
                               ShipData(w.shipObjs[s].type, w.corvetteSpeed),
                               delta)
        moved == VSub(updated.pos, w.shipObjs[s].pos)
    IN  [w EXCEPT !.shipObjs =
            [x \in DOMAIN @ |->
                IF x = s THEN updated
                ELSE [@[x] EXCEPT !.pos = VAdd(@, moved)]]]

\* updateShip(ship, delta)
updateShip(w, s, delta) ==
    [w EXCEPT !.shipObjs[s] =
        updatedShip(w, s, @, ShipData(@.type, w.corvetteSpeed), delta)]

\* this.ships.forEach((ship) => this.updateShip(ship, delta)), from index i.
RECURSIVE updateShipsFrom(_, _, _)
updateShipsFrom(w, i, delta) ==
    IF i > Len(w.ships) THEN w
    ELSE updateShipsFrom(updateShip(w, w.ships[i], delta), i + 1, delta)

\* shoot(shooter, target): the projectile is named by its shooter and the
\* time of the shot.
shoot(w, shooter, target, time) ==
    LET shooterPos == w.shipObjs[shooter].pos
        targetPos == w.shipObjs[target].pos
        velocity == ScaleTo(VSub(targetPos, shooterPos), bulletSpeed)
    IN  [w EXCEPT
           !.bullets = Append(@, [id |-> <<shooter, time>>, pos |-> shooterPos]),
           !.bulletVelocities = Append(@, velocity),
           !.bulletTimers = Append(@, bulletLifetime),
           !.bulletShooters = Append(@, shooter)]

CanFireLate(currentTime, lastFireTime, fireRate1000) ==
    (currentTime - lastFireTime) * fireRate1000 > 1000 * 1000

\* The test of tryShoot: currentTime - lastFireTime >= 1000 / fireRate.
CanFire(currentTime, lastFireTime, fireRate1000) ==
    (currentTime - lastFireTime) * fireRate1000 >= 1000 * 1000

\* tryShoot(shooter, target)
tryShoot(w, shooter, target, time) ==
    LET sh == w.shipObjs[shooter]
        shipData == ShipData(sh.type, w.corvetteSpeed)
        fire == CanFire(time, sh.lastFireTime, shipData.fireRate1000)
        w1 == IF fire
              THEN [shoot(w, shooter, target, time) EXCEPT
                      !.shipObjs[shooter].lastFireTime = time]
              ELSE w
    IN  [w1 EXCEPT !.shots = Append(@, [shooter |-> shooter, time |-> time,
                                        last |-> sh.lastFireTime,
                                        fired |-> fire])]

RECURSIVE ClosestPlayerFirst(_, _, _, _, _)
ClosestPlayerFirst(w, enemyPos, range, i, best) ==
    IF i > Len(w.ships) THEN best
    ELSE
      LET ship == w.ships[i]
          d2 == Dist2(enemyPos, w.shipObjs[ship].pos)
      IN  IF w.shipObjs[ship].type # "enemy" /\ best[1] = 0
             /\ d2 <= range * range
          THEN ClosestPlayerFirst(w, enemyPos, range, i + 1, <<ship, d2>>)
          ELSE ClosestPlayerFirst(w, enemyPos, range, i + 1, best)

\* The scan of updateEnemyAI for the closest non-enemy ship, from index i with
\* the closest so far <<ship, squared distance>> (ship 0: none, distance
\* Infinity).
RECURSIVE ClosestPlayer(_, _, _, _, _)
ClosestPlayer(w, enemyPos, range, i, best) ==
    IF i > Len(w.ships) THEN best
    ELSE
      LET ship == w.ships[i]
          d2 == Dist2(enemyPos, w.shipObjs[ship].pos)
          closer == best[1] = 0 \/ d2 < best[2]
      IN  IF w.shipObjs[ship].type # "enemy" /\ closer /\ d2 <= range * range
          THEN ClosestPlayer(w, enemyPos, range, i + 1, <<ship, d2>>)
          ELSE ClosestPlayer(w, enemyPos, range, i + 1, best)

\* The scan of updatePlayerAI and of findNearestEnemy over this.enemyShips;
\* range -1 stands for no range test.
RECURSIVE ClosestEnemy(_, _, _, _, _)
ClosestEnemy(w, pos, range, i, best) ==
    IF i > Len(w.enemyShips) THEN best
    ELSE
      LET ship == w.enemyShips[i]
          d2 == Dist2(pos, w.shipObjs[ship].pos)
          closer == best[1] = 0 \/ d2 < best[2]
      IN  IF closer /\ (range < 0 \/ d2 <= range * range)
          THEN ClosestEnemy(w, pos, range, i + 1, <<ship, d2>>)
          ELSE ClosestEnemy(w, pos, range, i + 1, best)

\* Keep a point of the enemy inside the world, aiBoundsMargin from its edge.
ClampToWorld(p) ==
    <<Clamp(aiBoundsMargin, worldWidth - aiBoundsMargin, p[1]),
      Clamp(aiBoundsMargin, worldHeight - aiBoundsMargin, p[2])>>

\* Vector2.scale(wanderStep) on the stored direction; a component is kept
\* within SatDir, far past the clamp of the world bounds.
ScaleDirection(d) ==
    <<Clamp(-SatDir, SatDir, d[1] * wanderStep),
      Clamp(-SatDir, SatDir, d[2] * wanderStep)>>

\* updateEnemyRandomMovement(enemy, delta); roll is the direction drawn if the
\* interval has passed.
updateEnemyRandomMovement(w, enemy, time, roll) ==
    LET lastChangeTime == IF enemy \in DOMAIN w.enemyMovementTimers
                          THEN w.enemyMovementTimers[enemy] ELSE 0
    IN  IF time - lastChangeTime >= wanderInterval
        THEN [w EXCEPT
                !.enemyMovementDirections =
                    [e \in DOMAIN @ \cup {enemy} |->
                        IF e = enemy THEN roll ELSE @[e]],
                !.enemyMovementTimers =
                    [e \in DOMAIN @ \cup {enemy} |->
                        IF e = enemy THEN time ELSE @[e]]]
        ELSE w

\* The body of updateEnemyAI for one enemy ship.
enemyAI(w, enemyShip, time, roll) ==
    LET enemyData == ShipData("enemy", w.corvetteSpeed)
        w1 == updateEnemyRandomMovement(w, enemyShip, time, roll)
        enemyPos == w1.shipObjs[enemyShip].pos
        closest == ClosestPlayer(w1, enemyPos, enemyData.detectionRange, 1,
                                 <<0, 0>>)
        closestShip == closest[1]
        chase == [w1 EXCEPT !.shipObjs[enemyShip].target =
                      ClampToWorld(w1.shipObjs[closestShip].pos)]
        hasDirection == enemyShip \in DOMAIN w1.enemyMovementDirections
        scaled == ScaleDirection(w1.enemyMovementDirections[enemyShip])
    IN  IF closestShip # 0
        THEN IF closest[2] <= enemyData.range * enemyData.range
             THEN tryShoot(chase, enemyShip, closestShip, time)
             ELSE chase
        ELSE IF hasDirection
        THEN [w1 EXCEPT
                !.enemyMovementDirections[enemyShip] = scaled,
                !.shipObjs[enemyShip].target =
                    ClampToWorld(VAdd(enemyPos, scaled))]
        ELSE w1

\* updateEnemyAI(delta): this.enemyShips.forEach, from index i.
RECURSIVE updateEnemyAI(_, _, _, _)
updateEnemyAI(w, i, time, roll) ==
    IF i > Len(w.enemyShips) THEN w
    ELSE updateEnemyAI(enemyAI(w, w.enemyShips[i], time, roll), i + 1, time,
                       roll)

playerAIChasing(w, playerShip, time) ==
    LET playerData == ShipData(w.shipObjs[playerShip].type, w.corvetteSpeed)
        closest == ClosestEnemy(w, w.shipObjs[playerShip].pos,
                                playerData.range, 1, <<0, 0>>)
    IN  IF closest[1] # 0
        THEN tryShoot([w EXCEPT !.shipObjs[playerShip].target =
                                    w.shipObjs[closest[1]].pos],
                      playerShip, closest[1], time)
        ELSE w

\* The body of updatePlayerAI for one player ship.
playerAI(w, playerShip, time) ==
    LET playerData == ShipData(w.shipObjs[playerShip].type, w.corvetteSpeed)
        closest == ClosestEnemy(w, w.shipObjs[playerShip].pos,
                                playerData.range, 1, <<0, 0>>)
    IN  IF closest[1] # 0 THEN tryShoot(w, playerShip, closest[1], time)
        ELSE w

\* updatePlayerAI(delta): playerShips.forEach over the filtered copy, from
\* index i.
RECURSIVE updatePlayerAI(_, _, _, _)
updatePlayerAI(w, playerShips, i, time) ==
    IF i > Len(playerShips) THEN w
    ELSE updatePlayerAI(playerAI(w, playerShips[i], time), playerShips, i + 1,
                        time)

\* this.ships.filter((ship) => ship.type !== 'enemy')
PlayerShipsOf(w) == SelectSeq(w.ships, LAMBDA x : w.shipObjs[x].type # "enemy")

destroyShipKeepWander(w, s) ==
    LET enemy == w.shipObjs[s].type = "enemy"
    IN  [w EXCEPT
           !.ships = Splice(@, IndexOf(@, s)),
           !.enemyShips = IF enemy THEN Splice(@, IndexOf(@, s)) ELSE @,
           !.selectedShips = SelectSeq(@, LAMBDA x : x # s),
           !.circularPaths = [x \in DOMAIN @ \ {s} |-> @[x]],
           !.destroyed = Append(@, [ship |-> s,
                                    selected |-> s \in Range(w.selectedShips),
                                    orbit |-> s \in DOMAIN w.circularPaths])]

destroyShipKeepSelected(w, s) ==
    LET enemy == w.shipObjs[s].type = "enemy"
    IN  [w EXCEPT
           !.ships = Splice(@, IndexOf(@, s)),
           !.enemyShips = IF enemy THEN Splice(@, IndexOf(@, s)) ELSE @,
           !.circularPaths = [x \in DOMAIN @ \ {s} |-> @[x]],
           !.enemyMovementTimers =
               IF enemy THEN [x \in DOMAIN @ \ {s} |-> @[x]] ELSE @,
           !.enemyMovementDirections =
               IF enemy THEN [x \in DOMAIN @ \ {s} |-> @[x]] ELSE @,
           !.destroyed = Append(@, [ship |-> s,
                                    selected |-> s \in Range(w.selectedShips),
                                    orbit |-> s \in DOMAIN w.circularPaths])]

\* destroyShip(ship)
destroyShip(w, s) ==
    LET enemy == w.shipObjs[s].type = "enemy"
    IN  [w EXCEPT
           !.ships = Splice(@, IndexOf(@, s)),
           !.enemyShips = IF enemy THEN Splice(@, IndexOf(@, s)) ELSE @,
           !.selectedShips = SelectSeq(@, LAMBDA x : x # s),
           !.circularPaths = [x \in DOMAIN @ \ {s} |-> @[x]],
           !.enemyMovementTimers =
               IF enemy THEN [x \in DOMAIN @ \ {s} |-> @[x]] ELSE @,
           !.enemyMovementDirections =
               IF enemy THEN [x \in DOMAIN @ \ {s} |-> @[x]] ELSE @,
           !.destroyed = Append(@, [ship |-> s,
                                    selected |-> s \in Range(w.selectedShips),
                                    orbit |-> s \in DOMAIN w.circularPaths])]

HitDamageLive(w, shooter) ==
    IF shooter # 0 /\ shooter \in Range(w.ships)
    THEN ShipData(w.shipObjs[shooter].type, w.corvetteSpeed).damage
    ELSE defaultDamage

HitDamageDefault(w, shooter) == defaultDamage

\* The damage of a hit: the weapon damage of the shooter's type, or
\* defaultDamage when the entry has no shooter (shooter 0).
HitDamage(w, shooter) ==
    IF shooter # 0
    THEN ShipData(w.shipObjs[shooter].type, w.corvetteSpeed).damage
    ELSE defaultDamage

SpliceBulletKeepShooter(w, bulletIndex, cause, by) ==
    [w EXCEPT
       !.removed = IF bulletIndex >= 1 /\ bulletIndex <= Len(w.bullets)
                   THEN Append(@, [id |-> w.bullets[bulletIndex].id,
                                   cause |-> cause, by |-> by])
                   ELSE @,
       !.bullets = Splice(@, bulletIndex),
       !.bulletVelocities = Splice(@, bulletIndex),
       !.bulletTimers = Splice(@, bulletIndex)]

\* The four splices at bulletIndex of a hit; the entry they take out, if any,
\* is logged with the projectile that hit.
SpliceBullet(w, bulletIndex, cause, by) ==
    [w EXCEPT
       !.removed = IF bulletIndex >= 1 /\ bulletIndex <= Len(w.bullets)
                   THEN Append(@, [id |-> w.bullets[bulletIndex].id,
                                   cause |-> cause, by |-> by])
                   ELSE @,
       !.bullets = Splice(@, bulletIndex),
       !.bulletVelocities = Splice(@, bulletIndex),
       !.bulletTimers = Splice(@, bulletIndex),
       !.bulletShooters = Splice(@, bulletIndex)]

\* The hit block of checkBulletCollisions for one ship.
applyHit(w, bullet, bulletIndex, shooter, ship) ==
    LET damage == HitDamage(w, shooter)
        w1 == [w EXCEPT
                 !.shipObjs[ship].health = @ - damage,
                 !.damageEffects = Append(@, w.shipObjs[ship].pos),
                 !.damageEffectTimers = Append(@, damageEffectDuration),
                 !.hits = Append(@, [bullet |-> bullet.id, ship |-> ship,
                                     damage |-> damage])]
        w2 == SpliceBullet(w1, bulletIndex, "hit", bullet.id)
    IN  IF w2.shipObjs[ship].health <= 0 THEN destroyShip(w2, ship) ELSE w2

\* The point p is within the hit radius of ship: distance < size / 2.
InHitRadius(w, p, ship) ==
    LET size == ShipData(w.shipObjs[ship].type, w.corvetteSpeed).size
    IN  4 * Dist2(p, w.shipObjs[ship].pos) < size * size

HitsAnyShip(w, bullet, shooter, ship) == InHitRadius(w, bullet.pos, ship)

\* The test of checkBulletCollisions for one ship: not the shooter, and the
\* projectile within the ship's hit radius.
Hits(w, bullet, shooter, ship) ==
    ship # shooter /\ InHitRadius(w, bullet.pos, ship)

\* checkBulletCollisions(bullet, bulletIndex, shooter): this.ships.forEach
\* from index k; forEach visits the indices that exist when it reaches them.
RECURSIVE checkBulletCollisions(_, _, _, _, _)
checkBulletCollisions(w, bullet, bulletIndex, shooter, k) ==
    IF k > Len(w.ships) THEN w
    ELSE
      LET ship == w.ships[k]
      IN  checkBulletCollisions(
              IF Hits(w, bullet, shooter, ship) THEN applyHit(w, bullet, bulletIndex, shooter, ship)
                     ELSE w,
              bullet, bulletIndex, shooter, k + 1)

\* The bounds test of updateBullets.
OutOfWorld(p) ==
    p[1] < 0 \/ p[1] > worldWidth \/ p[2] < 0 \/ p[2] > worldHeight

ExpiredLate(timer) == timer < 0

\* The expiry test of updateBullets on the decremented timer.
Expired(timer) == timer <= 0

\* updateBullets(delta): the loop from index i down to 1.
RECURSIVE updateBullets(_, _, _)
updateBullets(w, i, delta) ==
    IF i < 1 THEN w
    ELSE IF i > Len(w.bullets) \/ i > Len(w.bulletVelocities)
            \/ i > Len(w.bulletTimers)
    THEN updateBullets(SpliceBullet(w, i, "invalid", <<>>), i - 1, delta)
    ELSE
      LET velocity == w.bulletVelocities[i]
          timer == w.bulletTimers[i]
          shooter == IF i <= Len(w.bulletShooters) THEN w.bulletShooters[i]
                     ELSE 0
          moved == [id |-> w.bullets[i].id,
                    pos |-> <<w.bullets[i].pos[1] + DivT(velocity[1] * delta, 1000),
                              w.bullets[i].pos[2] + DivT(velocity[2] * delta, 1000)>>]
          w1 == [w EXCEPT !.bullets[i] = moved, !.bulletTimers[i] = timer - delta]
          expired == Expired(timer - delta)
      IN  IF expired \/ OutOfWorld(moved.pos)
          THEN updateBullets(
                   SpliceBullet(w1, i, IF expired THEN "expired" ELSE "bounds",
                                moved.id),
                   i - 1, delta)
          ELSE updateBullets(
                   checkBulletCollisions(
                       [w1 EXCEPT !.tested = @ \cup {moved.id}],
                       moved, i, shooter, 1),
                   i - 1, delta)

RECURSIVE updateDamageEffectsLate(_, _, _)
updateDamageEffectsLate(w, i, delta) ==
    IF i < 1 THEN w
    ELSE IF i > Len(w.damageEffects) \/ i > Len(w.damageEffectTimers)
    THEN updateDamageEffectsLate(
             [w EXCEPT !.damageEffects = Splice(@, i),
                       !.damageEffectTimers = Splice(@, i)],
             i - 1, delta)
    ELSE IF w.damageEffectTimers[i] - delta < 0
    THEN updateDamageEffectsLate(
             [w EXCEPT !.damageEffects = Splice(@, i),
                       !.damageEffectTimers = Splice(@, i)],
             i - 1, delta)
    ELSE updateDamageEffectsLate(
             [w EXCEPT !.damageEffectTimers[i] = @ - delta], i - 1, delta)

\* updateDamageEffects(delta): the loop from index i down to 1.
RECURSIVE updateDamageEffects(_, _, _)
updateDamageEffects(w, i, delta) ==
    IF i < 1 THEN w
    ELSE IF i > Len(w.damageEffects) \/ i > Len(w.damageEffectTimers)
    THEN updateDamageEffects(
             [w EXCEPT !.damageEffects = Splice(@, i),
                       !.damageEffectTimers = Splice(@, i)],
             i - 1, delta)
    ELSE IF w.damageEffectTimers[i] - delta <= 0
    THEN updateDamageEffects(
             [w EXCEPT !.damageEffects = Splice(@, i),
                       !.damageEffectTimers = Splice(@, i)],
             i - 1, delta)
    ELSE updateDamageEffects(
             [w EXCEPT !.damageEffectTimers[i] = @ - delta], i - 1, delta)

\* The body of updateCircularPaths for one entry: <<ship record, pathData>>.
circularStep(sh, pathData, delta) ==
    LET angularVelocity == sh.currentSpeed \div pathData.radius
        angle == pathData.startAngle + (angularVelocity * delta) \div 1000
        newPos == <<pathData.center[1] + DivT(Cos(angle) * pathData.radius, 1000),
                    pathData.center[2] + DivT(Sin(angle) * pathData.radius, 1000)>>
    IN  IF sh.currentSpeed > 0
        THEN <<[sh EXCEPT !.pos = newPos],
               [pathData EXCEPT !.startAngle = angle]>>
        ELSE <<sh, pathData>>

\* updateCircularPaths(delta)
updateCircularPaths(w, delta) ==
    [w EXCEPT
       !.shipObjs = [s \in DOMAIN @ |->
                       IF s \in DOMAIN w.circularPaths
                       THEN circularStep(@[s], w.circularPaths[s], delta)[1]
                       ELSE @[s]],
       !.circularPaths = [s \in DOMAIN @ |->
                            circularStep(w.shipObjs[s], @[s], delta)[2]]]

\* The fields of the scene that update() reads and writes, with the logs of
\* the frame empty.
World ==
    [shipObjs |-> shipObjs, ships |-> ships, selectedShips |-> selectedShips,
     enemyShips |-> enemyShips, bullets |-> bullets,
     bulletVelocities |-> bulletVelocities, bulletTimers |-> bulletTimers,
     bulletShooters |-> bulletShooters, damageEffects |-> damageEffects,
     damageEffectTimers |-> damageEffectTimers,
     circularPaths |-> circularPaths,
     enemyMovementTimers |-> enemyMovementTimers,
     enemyMovementDirections |-> enemyMovementDirections,
     corvetteSpeed |-> corvetteSpeed,
     hits |-> <<>>, removed |-> <<>>, tested |-> {}, shots |-> <<>>,
     destroyed |-> <<>>]

\* update(time, delta): the stages in the order of the method.
update(w, time, delta, roll) ==
    LET afterShips == updateShipsFrom(w, 1, delta)
        afterEnemyAI == updateEnemyAI(afterShips, 1, time, roll)
        afterPlayerAI == updatePlayerAI(afterEnemyAI, PlayerShipsOf(afterEnemyAI),
                                        1, time)
        afterBullets == updateBullets(afterPlayerAI, Len(afterPlayerAI.bullets),
                                      delta)
        afterEffects == updateDamageEffects(afterBullets,
                                            Len(afterBullets.damageEffects),
                                            delta)
    IN  updateCircularPaths(afterEffects, delta)

(***************************************************************************)
(* The command gesture: drawRotationIndicator and what it calls.  A        *)
(* gesture g is a record of the targeting and locking fields.              *)
(***************************************************************************)
Gesture ==
    [isTargeting |-> isTargeting, targetedEnemy |-> targetedEnemy,
     targetingCircle |-> targetingCircle,
     isWaypointLocked |-> isWaypointLocked, lockedEnemy |-> lockedEnemy,
     lockedDistance |-> lockedDistance,
     lockedWaypointPosition |-> lockedWaypointPosition]

\* enterTargetingMode(enemy)
enterTargetingMode(g, enemy) ==
    [g EXCEPT !.isTargeting = TRUE, !.targetedEnemy = enemy,
              !.targetingCircle = TRUE]

\* exitTargetingMode()
exitTargetingMode(g) ==
    [g EXCEPT !.isTargeting = FALSE, !.targetedEnemy = 0,
              !.targetingCircle = FALSE]

\* lockWaypointToEnemy(enemy)
lockWaypointToEnemy(g, enemy, cur) ==
    [g EXCEPT !.isWaypointLocked = TRUE, !.lockedEnemy = enemy,
              !.lockedDistance = Dist(cur, shipObjs[enemy].pos),
              !.lockedWaypointPosition = cur,
              !.targetingCircle = TRUE]

\* unlockWaypoint()
unlockWaypoint(g) ==
    [g EXCEPT !.isWaypointLocked = FALSE, !.lockedEnemy = 0,
              !.lockedDistance = 0, !.targetingCircle = FALSE]

\* updateLockedWaypointPosition()
updateLockedWaypointPosition(g, cur) ==
    IF g.lockedEnemy = 0 THEN g
    ELSE LET enemyPos == shipObjs[g.lockedEnemy].pos
         IN  [g EXCEPT !.lockedWaypointPosition =
                 VAdd(enemyPos, ScaleTo(VSub(cur, enemyPos), g.lockedDistance))]

\* The release test of updateTargetingMode and updateLockedWaypointTargeting.
BeyondRelease(cur, enemy) ==
    Dist2(cur, shipObjs[enemy].pos)
        > targetingReleaseRange * targetingReleaseRange

\* updateTargetingMode()
updateTargetingMode(g, cur) ==
    IF g.targetedEnemy = 0 \/ ~g.targetingCircle THEN g
    ELSE IF BeyondRelease(cur, g.targetedEnemy) THEN exitTargetingMode(g)
    ELSE g

\* updateLockedWaypointTargeting()
updateLockedWaypointTargeting(g, cur) ==
    IF g.lockedEnemy = 0 \/ ~g.targetingCircle THEN g
    ELSE IF BeyondRelease(cur, g.lockedEnemy) THEN unlockWaypoint(g)
    ELSE g

\* findNearestEnemy(position): 0 when there is no enemy.
findNearestEnemy(position) ==
    ClosestEnemy([enemyShips |-> enemyShips, shipObjs |-> shipObjs],
                 position, -1, 1, <<0, 0>>)[1]

\* The snap step of drawRotationIndicator.
SnapStep(g, start, cur) ==
    LET nearestEnemy == findNearestEnemy(cur)
        isDraggingWaypoint == Dist2(start, cur) > dragThreshold * dragThreshold
    IN  IF nearestEnemy = 0 THEN g
        ELSE IF Dist2(cur, shipObjs[nearestEnemy].pos)
                  > targetingSnapRange * targetingSnapRange THEN g
        ELSE IF isDraggingWaypoint /\ ~g.isWaypointLocked
        THEN lockWaypointToEnemy(g, nearestEnemy, cur)
        ELSE IF ~isDraggingWaypoint /\ ~g.isTargeting
        THEN enterTargetingMode(g, nearestEnemy)
        ELSE g

\* drawRotationIndicator(), with the rotation ship rs and the start and
\* current positions of the gesture.
drawRotationIndicator(g, rs, start, cur) ==
    IF rs = 0 THEN g
    ELSE
      LET g1 == SnapStep(g, start, cur)
          g2 == IF g1.isWaypointLocked /\ g1.lockedEnemy # 0
                THEN updateLockedWaypointPosition(g1, cur) ELSE g1
      IN  IF g2.isTargeting /\ g2.targetedEnemy # 0
          THEN updateTargetingMode(g2, cur)
          ELSE IF g2.isWaypointLocked /\ g2.lockedEnemy # 0
          THEN updateLockedWaypointTargeting(g2, cur)
          ELSE g2

\* The gesture fields take the values of g.
SetGesture(g) ==
    /\ isTargeting' = g.isTargeting
    /\ targetedEnemy' = g.targetedEnemy
    /\ targetingCircle' = g.targetingCircle
    /\ isWaypointLocked' = g.isWaypointLocked
    /\ lockedEnemy' = g.lockedEnemy
    /\ lockedDistance' = g.lockedDistance
    /\ lockedWaypointPosition' = g.lockedWaypointPosition

(***************************************************************************)
(* Initial states.  A run starts from create(), or from a later state of   *)
(* the same scene: the ships moved into a battle formation by movement     *)
(* commands and by the enemy's chase, and one ship worn down by hits.      *)
(***************************************************************************)
\* Both corvettes on one waypoint, the enemy d pixels below them.
BattlePositions(d) ==
    <<VAdd(worldCenter, <<0, 100>>),
      VAdd(worldCenter, <<0, 100>>),
      VAdd(worldCenter, <<0, 100 + d>>)>>

BattleGaps == {95, 100, 140}

\* The second corvette between the first corvette and the enemy, on one line.
LinePositions ==
    <<VAdd(worldCenter, <<0, 100>>),
      VAdd(worldCenter, <<0, 150>>),
      VAdd(worldCenter, <<0, 240>>)>>

Formations ==
    {[positions |-> CreatePositions, goRot |-> HalfPI]}
      \cup {[positions |-> BattlePositions(d), goRot |-> -HalfPI] :
               d \in BattleGaps}
      \cup {[positions |-> LinePositions, goRot |-> -HalfPI]}

\* The health a ship starts with: worn is the ship worn down (0: none), left
\* the health it has left.
StartHealth(s, worn, left) ==
    IF s = worn THEN left
    ELSE ShipData(ShipType(s), corvetteSpeedDefault).health

\* The gesture fields create() leaves.
NoGesture ==
    [isTargeting |-> FALSE, targetedEnemy |-> 0, targetingCircle |-> FALSE,
     isWaypointLocked |-> FALSE, lockedEnemy |-> 0, lockedDistance |-> 0,
     lockedWaypointPosition |-> <<0, 0>>]

\* The command fields create() leaves around the ship objects objs: the first
\* corvette selected, no gesture under way.
Created(objs) ==
    [shipObjs |-> objs, selectedShips |-> <<1>>,
     circularPaths |-> [s \in {} |-> Null],
     isBoxSelecting |-> FALSE, boxStart |-> <<0, 0>>, boxEnd |-> <<0, 0>>,
     isRotating |-> FALSE, rotationStartPos |-> <<0, 0>>,
     rotationCurrentPos |-> <<0, 0>>, rotationShip |-> 0, g |-> NoGesture]

\* The scene with the command fields of c, nothing fired yet, the enemy
\* wandering in direction dir, op the last handler run.
InitScene(c, dir, op) ==
    /\ shipObjs = c.shipObjs
    /\ ships = <<1, 2, theEnemy>>
    /\ enemyShips = <<theEnemy>>
    /\ selectedShips = c.selectedShips
    /\ bullets = <<>>
    /\ bulletVelocities = <<>>
    /\ bulletTimers = <<>>
    /\ bulletShooters = <<>>
    /\ damageEffects = <<>>
    /\ damageEffectTimers = <<>>
    /\ circularPaths = c.circularPaths
    /\ isBoxSelecting = c.isBoxSelecting
    /\ boxStart = c.boxStart
    /\ boxEnd = c.boxEnd
    /\ isRotating = c.isRotating
    /\ rotationStartPos = c.rotationStartPos
    /\ rotationCurrentPos = c.rotationCurrentPos
    /\ rotationShip = c.rotationShip
    /\ isTargeting = c.g.isTargeting
    /\ targetedEnemy = c.g.targetedEnemy
    /\ targetingCircle = c.g.targetingCircle
    /\ isWaypointLocked = c.g.isWaypointLocked
    /\ lockedEnemy = c.g.lockedEnemy
    /\ lockedDistance = c.g.lockedDistance
    /\ lockedWaypointPosition = c.g.lockedWaypointPosition
    /\ enemyMovementTimers = [e \in {theEnemy} |-> 0]
    /\ enemyMovementDirections = [e \in {theEnemy} |-> dir]
    /\ now = 0
    /\ corvetteSpeed = corvetteSpeedDefault
    /\ lastOp = op
    /\ commandCount = 0
    /\ lastDelta = 0
    /\ hits = <<>>
    /\ removed = <<>>
    /\ tested = {}
    /\ shots = <<>>
    /\ destroyed = <<>>
    /\ frame = 0

\* The ship objects of formation f.
FormationShips(f, worn, left) ==
    [s \in ShipIds |->
        createShip(ShipType(s), f.positions[s], StartHealth(s, worn, left),
                   f.goRot)]

InitWith(f, worn, left, dir) ==
    InitScene(Created(FormationShips(f, worn, left)), dir, "create")

\* Every formation, with any one ship worn down: the states the battles of
\* SpecBattle start from.
InitBattle ==
    \E f \in Formations, worn \in {0} \cup ShipIds, left \in 1..MaxWear,
       dir \in Directions :
        /\ worn = 0 => left = 1
        /\ f.positions # CreatePositions => dir = <<0, -1>>
        /\ InitWith(f, worn, left, dir)

\* The states the command runs of Spec start from: create(), and the battle
\* formation with the enemy or the first corvette one hit from destruction.
Init ==
    \/ InitWith([positions |-> CreatePositions, goRot |-> HalfPI],
                0, 1, <<0, -1>>)
    \/ \E worn \in {1, theEnemy} :
           InitWith([positions |-> BattlePositions(100), goRot |-> -HalfPI],
                    worn, 1, <<0, -1>>)

(***************************************************************************)
(* update(time, delta)                                                     *)
(***************************************************************************)
\* The frame times the model draws.
Deltas == {250, 500, 1000}

\* The direction a due re-roll of updateEnemyRandomMovement may draw.
Rolls(time) ==
    IF \E e \in DOMAIN enemyMovementTimers :
           time - enemyMovementTimers[e] >= wanderInterval
    THEN Directions ELSE {<<1, 0>>}

\* One call of update(time, delta): the scene fields take the values the
\* frame leaves, the clock reads time.
Frame(time, delta, roll) ==
    /\ \E w \in {update(World, time, delta, roll)} :
           /\ shipObjs' = w.shipObjs
           /\ ships' = w.ships
           /\ selectedShips' = w.selectedShips
           /\ enemyShips' = w.enemyShips
           /\ bullets' = w.bullets
           /\ bulletVelocities' = w.bulletVelocities
           /\ bulletTimers' = w.bulletTimers
           /\ bulletShooters' = w.bulletShooters
           /\ damageEffects' = w.damageEffects
           /\ damageEffectTimers' = w.damageEffectTimers
           /\ circularPaths' = w.circularPaths
           /\ enemyMovementTimers' = w.enemyMovementTimers
           /\ enemyMovementDirections' = w.enemyMovementDirections
           /\ hits' = w.hits
           /\ removed' = w.removed
           /\ tested' = w.tested
           /\ shots' = w.shots
           /\ destroyed' = w.destroyed
    /\ now' = time
    /\ lastDelta' = delta
    /\ lastOp' = "update"
    /\ frame' = 1 - frame
    /\ UNCHANGED <<gestureVars, corvetteSpeed, commandCount>>

\* A frame of delta ms, while the clock stays within MaxTime.
Tick(delta, roll) ==
    /\ now + delta <= MaxTime
    /\ Frame(now + delta, delta, roll)

(***************************************************************************)
(* The input handlers of create(): pointerdown, pointermove, pointerup and *)
(* the speed slider.  A command state c is a record of the fields they     *)
(* write.                                                                  *)
(***************************************************************************)
Command ==
    [shipObjs |-> shipObjs, selectedShips |-> selectedShips,
     circularPaths |-> circularPaths,
     isBoxSelecting |-> isBoxSelecting, boxStart |-> boxStart,
     boxEnd |-> boxEnd, isRotating |-> isRotating,
     rotationStartPos |-> rotationStartPos,
     rotationCurrentPos |-> rotationCurrentPos,
     rotationShip |-> rotationShip, g |-> Gesture]

SetCommand(c) ==
    /\ shipObjs' = c.shipObjs
    /\ selectedShips' = c.selectedShips
    /\ circularPaths' = c.circularPaths
    /\ isBoxSelecting' = c.isBoxSelecting
    /\ boxStart' = c.boxStart
    /\ boxEnd' = c.boxEnd
    /\ isRotating' = c.isRotating
    /\ rotationStartPos' = c.rotationStartPos
    /\ rotationCurrentPos' = c.rotationCurrentPos
    /\ rotationShip' = c.rotationShip
    /\ SetGesture(c.g)
    /\ UNCHANGED <<ships, enemyShips, bulletVars, effectVars, enemyMoveVars,
                   now, corvetteSpeed, logVars>>

\* dot.getBounds().contains(x, y): the square around the dot's circle.
DotContains(dot, p) ==
    Abs(p[1] - dot[1]) <= dotRadius /\ Abs(p[2] - dot[2]) <= dotRadius

\* The pointer is over the ship's image: the square of the ship's size.
ShipContains(sh, p) ==
    LET size == ShipData(sh.type, corvetteSpeed).size
    IN  2 * Abs(p[1] - sh.pos[1]) <= size /\ 2 * Abs(p[2] - sh.pos[2]) <= size

\* getHoveredDot(pointer): <<ship, waypointIndex>> of the first dot under the
\* pointer, scanning ships from index k and dots from index i; <<0, 0>> if
\* there is none.
RECURSIVE getHoveredDot(_, _, _)
getHoveredDot(p, k, i) ==
    IF k > Len(ships) THEN <<0, 0>>
    ELSE IF i > Len(shipObjs[ships[k]].waypointDots)
    THEN getHoveredDot(p, k + 1, 1)
    ELSE IF DotContains(shipObjs[ships[k]].waypointDots[i], p)
    THEN <<ships[k], i>>
    ELSE getHoveredDot(p, k, i + 1)

\* this.ships.find: the first ship whose image is under the pointer, from
\* index k; 0 if there is none.
RECURSIVE clickedShipFrom(_, _)
clickedShipFrom(p, k) ==
    IF k > Len(ships) THEN 0
    ELSE IF ShipContains(shipObjs[ships[k]], p) THEN ships[k]
    ELSE clickedShipFrom(p, k + 1)

startCircularPathKeepQueue(c, ship, center, radius) ==
    LET shipCenter == c.shipObjs[ship].pos
        startAngle == Atan2(shipCenter[2] - center[2], shipCenter[1] - center[1])
    IN  [c EXCEPT
           !.circularPaths =
               [x \in DOMAIN @ \cup {ship} |->
                   IF x = ship
                   THEN [center |-> center, radius |-> radius,
                         startAngle |-> startAngle]
                   ELSE @[x]]]

\* startCircularPath(ship, center, radius)
startCircularPath(c, ship, center, radius) ==
    LET shipCenter == c.shipObjs[ship].pos
        startAngle == Atan2(shipCenter[2] - center[2], shipCenter[1] - center[1])
    IN  [c EXCEPT
           !.circularPaths =
               [x \in DOMAIN @ \cup {ship} |->
                   IF x = ship
                   THEN [center |-> center, radius |-> radius,
                         startAngle |-> startAngle]
                   ELSE @[x]],
           !.shipObjs[ship].waypoints = <<>>,
           !.shipObjs[ship].target = Null,
           !.shipObjs[ship].pathStart = Null,
           !.shipObjs[ship].waypointDots = <<>>]

\* selectOnlyShip(ship)
selectOnlyShip(c, ship) == [c EXCEPT !.selectedShips = <<ship>>]

\* startBoxSelection(pointer)
startBoxSelection(c, p) ==
    [c EXCEPT !.isBoxSelecting = TRUE, !.boxStart = p, !.boxEnd = p]

\* Array.from(this.selectedShips)[0]; 0 for undefined.
FirstSelected(c) ==
    IF Len(c.selectedShips) > 0 THEN c.selectedShips[1] ELSE 0

\* startRotationOrMovement(pointer)
startRotationOrMovement(c, p) ==
    LET firstSelectedShip == FirstSelected(c)
    IN  IF firstSelectedShip = 0 THEN c
        ELSE [c EXCEPT
                !.isRotating = TRUE,
                !.rotationShip = firstSelectedShip,
                !.rotationStartPos = p,
                !.rotationCurrentPos = p,
                !.g = drawRotationIndicator(c.g, firstSelectedShip, p, p)]

updateShipFollowingPositionFirstShip(c, currentShip, enemyShip) ==
    IF enemyShip = 0 THEN c
    ELSE
      LET follower == IF currentShip = 0 THEN ships[1] ELSE currentShip
          en == c.shipObjs[enemyShip]
          indicator == <<en.pos[1], en.pos[2] - followIndicatorOffset>>
      IN  [c EXCEPT
             !.shipObjs[follower].followTarget = enemyShip,
             !.shipObjs[follower].target = FollowPoint(en, followSeedDistance),
             !.shipObjs[follower].waypoints = <<>>,
             !.shipObjs[follower].waypointDirections = <<>>,
             !.isRotating = TRUE,
             !.rotationShip = follower,
             !.rotationCurrentPos = indicator,
             !.rotationStartPos = indicator,
             !.g = drawRotationIndicator(c.g, follower, indicator, indicator)]

\* updateShipFollowingPosition(currentShip, enemyShip)
updateShipFollowingPosition(c, currentShip, enemyShip) ==
    IF currentShip = 0 \/ enemyShip = 0 THEN c
    ELSE
      LET en == c.shipObjs[enemyShip]
          indicator == <<en.pos[1], en.pos[2] - followIndicatorOffset>>
      IN  [c EXCEPT
             !.shipObjs[currentShip].followTarget = enemyShip,
             !.shipObjs[currentShip].target = FollowPoint(en, followSeedDistance),
             !.shipObjs[currentShip].waypoints = <<>>,
             !.shipObjs[currentShip].waypointDirections = <<>>,
             !.isRotating = TRUE,
             !.rotationShip = currentShip,
             !.rotationCurrentPos = indicator,
             !.rotationStartPos = indicator,
             !.g = drawRotationIndicator(c.g, currentShip, indicator, indicator)]

\* The pointerdown handler, left button.
pointerdown(c, p, shiftHeld) ==
    LET hoveredDot == IF shiftHeld THEN getHoveredDot(p, 1, 1) ELSE <<0, 0>>
        dotShip == hoveredDot[1]
        hasWaypoint == dotShip # 0
                       /\ hoveredDot[2] <= Len(c.shipObjs[dotShip].waypoints)
        waypoint == c.shipObjs[dotShip].waypoints[hoveredDot[2]]
        clickedShip == clickedShipFrom(p, 1)
    IN  IF hasWaypoint
        THEN startCircularPath(c, dotShip, waypoint,
                               Dist(c.shipObjs[dotShip].pos, waypoint))
        ELSE IF clickedShip # 0
        THEN IF c.shipObjs[clickedShip].type = "enemy"
             THEN updateShipFollowingPosition(c, FirstSelected(c), theEnemy)
             ELSE startRotationOrMovement(selectOnlyShip(c, clickedShip), p)
        ELSE IF Len(c.selectedShips) > 0
        THEN startRotationOrMovement(c, p)
        ELSE startBoxSelection(c, p)

\* A shift-click on the dot of a waypoint the ship stands on would start an
\* orbit of radius 0; the model leaves that input out.
OrbitOfRadiusZero(p, shiftHeld) ==
    LET hoveredDot == IF shiftHeld THEN getHoveredDot(p, 1, 1) ELSE <<0, 0>>
        dotShip == hoveredDot[1]
    IN  /\ dotShip # 0
        /\ hoveredDot[2] <= Len(shipObjs[dotShip].waypoints)
        /\ Dist(shipObjs[dotShip].pos,
                shipObjs[dotShip].waypoints[hoveredDot[2]]) = 0

\* An input handler runs while fewer than MaxCommands have run.
CountCommand ==
    /\ commandCount < MaxCommands
    /\ commandCount' = commandCount + 1

PointerDown(p, shiftHeld) ==
    /\ CountCommand
    /\ ~OrbitOfRadiusZero(p, shiftHeld)
    /\ \E c \in {pointerdown(Command, p, shiftHeld)} : SetCommand(c)
    /\ lastOp' = "pointerdown"

\* The pointermove handler.
pointermove(c, p) ==
    IF c.isBoxSelecting THEN [c EXCEPT !.boxEnd = p]
    ELSE IF c.isRotating /\ c.rotationShip # 0
    THEN [c EXCEPT
            !.rotationCurrentPos = p,
            !.g = drawRotationIndicator(c.g, c.rotationShip,
                                        c.rotationStartPos, p)]
    ELSE c

PointerMove(p) ==
    /\ CountCommand
    /\ \E c \in {pointermove(Command, p)} : SetCommand(c)
    /\ lastOp' = "pointermove"

finishBoxSelectionAnyType(c) ==
    LET x1 == Min(c.boxStart[1], c.boxEnd[1])
        y1 == Min(c.boxStart[2], c.boxEnd[2])
        x2 == Max(c.boxStart[1], c.boxEnd[1])
        y2 == Max(c.boxStart[2], c.boxEnd[2])
        inside(s) ==
            LET center == c.shipObjs[s].pos
            IN  /\ center[1] >= x1 /\ center[1] <= x2
                /\ center[2] >= y1 /\ center[2] <= y2
    IN  [c EXCEPT !.isBoxSelecting = FALSE,
                  !.selectedShips = SelectSeq(ships, inside)]

\* finishBoxSelection(): the non-enemy ships with their centre in the box, in
\* the order of this.ships.
finishBoxSelection(c) ==
    LET x1 == Min(c.boxStart[1], c.boxEnd[1])
        y1 == Min(c.boxStart[2], c.boxEnd[2])
        x2 == Max(c.boxStart[1], c.boxEnd[1])
        y2 == Max(c.boxStart[2], c.boxEnd[2])
        inside(s) ==
            LET center == c.shipObjs[s].pos
            IN  /\ c.shipObjs[s].type # "enemy"
                /\ center[1] >= x1 /\ center[1] <= x2
                /\ center[2] >= y1 /\ center[2] <= y2
    IN  [c EXCEPT !.isBoxSelecting = FALSE,
                  !.selectedShips = SelectSeq(ships, inside)]

\* The body of the first selectedShips.forEach of finishRotation for one
\* ship.
giveWaypoint(c, ship, start, clickPos, append) ==
    LET sh == c.shipObjs[ship]
        deltaX == clickPos[1] - start[1]
        deltaY == clickPos[2] - start[2]
        dragged == deltaX * deltaX + deltaY * deltaY
                       > dragThreshold * dragThreshold
        movementTarget == IF c.g.isWaypointLocked
                          THEN c.g.lockedWaypointPosition ELSE start
        waypointDirection == IF dragged THEN Atan2(deltaY, deltaX)
                             ELSE sh.targetRotation
        sh1 == IF append /\ Len(sh.waypoints) > 0
               THEN [sh EXCEPT
                       !.waypoints = Append(@, movementTarget),
                       !.waypointDirections = Append(@, waypointDirection)]
               ELSE [sh EXCEPT
                       !.waypoints = <<movementTarget>>,
                       !.waypointDirections = <<waypointDirection>>,
                       !.pathStart = sh.pos,
                       !.target = movementTarget]
        sh2 == IF ~append /\ Len(sh1.waypointDirections) > 0
               THEN [sh1 EXCEPT !.targetRotation = sh1.waypointDirections[1]]
               ELSE sh1
    IN  [c EXCEPT
           !.circularPaths = [x \in DOMAIN @ \ {ship} |-> @[x]],
           !.shipObjs[ship] = updateWaypointDots(sh2)]

\* The first selectedShips.forEach of finishRotation, from index i.
RECURSIVE giveWaypoints(_, _, _, _, _)
giveWaypoints(c, i, start, clickPos, append) ==
    IF i > Len(c.selectedShips) THEN c
    ELSE giveWaypoints(
             giveWaypoint(c, c.selectedShips[i], start, clickPos, append),
             i + 1, start, clickPos, append)

faceDragAppending(c, start, clickPos, append) ==
    LET deltaX == clickPos[1] - start[1]
        deltaY == clickPos[2] - start[2]
        dragged == deltaX * deltaX + deltaY * deltaY
                       > dragThreshold * dragThreshold
    IN  IF dragged
        THEN [c EXCEPT !.shipObjs =
                 [s \in DOMAIN @ |->
                     IF s \in Range(c.selectedShips)
                     THEN [@[s] EXCEPT !.targetRotation = Atan2(deltaY, deltaX)]
                     ELSE @[s]]]
        ELSE c

\* The second selectedShips.forEach of finishRotation: the rotation of a drag.
faceDrag(c, start, clickPos, append) ==
    LET deltaX == clickPos[1] - start[1]
        deltaY == clickPos[2] - start[2]
        dragged == deltaX * deltaX + deltaY * deltaY
                       > dragThreshold * dragThreshold
    IN  IF dragged /\ ~append
        THEN [c EXCEPT !.shipObjs =
                 [s \in DOMAIN @ |->
                     IF s \in Range(c.selectedShips)
                     THEN [@[s] EXCEPT !.targetRotation = Atan2(deltaY, deltaX)]
                     ELSE @[s]]]
        ELSE c

\* finishRotation(pointer)
finishRotation(c, clickPos, append) ==
    IF c.rotationShip = 0 THEN c
    ELSE
      LET c1 == [c EXCEPT !.g = unlockWaypoint(exitTargetingMode(c.g))]
          c2 == giveWaypoints(c1, 1, c.rotationStartPos, clickPos, append)
          c3 == faceDrag(c2, c.rotationStartPos, clickPos, append)
      IN  [c3 EXCEPT !.isRotating = FALSE, !.rotationShip = 0]

\* The pointerup handler.
pointerup(c, p, shiftHeld) ==
    IF c.isBoxSelecting THEN finishBoxSelection(c)
    ELSE IF c.isRotating /\ c.rotationShip # 0
    THEN finishRotation(c, p, shiftHeld)
    ELSE c

\* An append that would make a queue longer than MaxWaypoints is left out.
QueuesFull ==
    \E i \in 1..Len(selectedShips) :
        Len(shipObjs[selectedShips[i]].waypoints) >= MaxWaypoints

PointerUp(p, shiftHeld) ==
    /\ CountCommand
    /\ ~(shiftHeld /\ isRotating /\ QueuesFull)
    /\ \E c \in {pointerup(Command, p, shiftHeld)} : SetCommand(c)
    /\ lastOp' = "pointerup"

\* The onChange handler of the speed slider of create().
SetCorvetteSpeed(value) ==
    /\ CountCommand
    /\ corvetteSpeed' =
           IF \E i \in 1..Len(ships) : shipObjs[ships[i]].type = "corvette"
           THEN value ELSE corvetteSpeed
    /\ lastOp' = "slider"
    /\ UNCHANGED <<shipObjs, ships, selectedShips, enemyShips, bulletVars,
                   effectVars, circularPaths, gestureVars, enemyMoveVars, now,
                   logVars>>

(***************************************************************************)
(* Specifications.                                                         *)
(***************************************************************************)
\* Where the model puts the pointer: on a ship, on a waypoint dot, within the
\* snap range of an enemy, beyond its release range, and on open space.
PointerPoints ==
    {shipObjs[ships[i]].pos : i \in 1..Len(ships)}
      \cup UNION {Range(shipObjs[ships[i]].waypointDots) : i \in 1..Len(ships)}
      \cup {VAdd(shipObjs[enemyShips[i]].pos, <<0, -40>>) :
               i \in 1..Len(enemyShips)}
      \cup {VAdd(shipObjs[enemyShips[i]].pos, <<0, -120>>) :
               i \in 1..Len(enemyShips)}
      \cup {worldCenter}

\* The values the model gives the speed slider (its range is 10..1000).
SliderValues == {10, 60}

\* The frame time of the runs that mix frames with commands.
CommandDeltas == {500}

Next ==
    \/ \E delta \in CommandDeltas : \E roll \in Rolls(now + delta) : Tick(delta, roll)
    \/ \E p \in PointerPoints, shiftHeld \in BOOLEAN : PointerDown(p, shiftHeld)
    \/ \E p \in PointerPoints : PointerMove(p)
    \/ \E p \in PointerPoints, shiftHeld \in BOOLEAN : PointerUp(p, shiftHeld)
    \/ \E value \in SliderValues : SetCorvetteSpeed(value)

Spec == Init /\ [][Next]_vars

\* Frames only, of every frame time, from every formation.
NextBattle ==
    \E delta \in Deltas : \E roll \in Rolls(now + delta) : Tick(delta, roll)

SpecBattle == InitBattle /\ [][NextBattle]_vars

\* Frames of FineDelta ms only, from every formation: a projectile moves less
\* than a hit radius per frame.
FineDelta == 50

NextFine == \E roll \in Rolls(now + FineDelta) : Tick(FineDelta, roll)

SpecFine == InitBattle /\ [][NextFine]_vars

\* The command state startRotationOrMovement leaves for a pointerdown on open
\* space at p, beyond the snap range of every enemy.
Started(c, p) ==
    [c EXCEPT !.isRotating = TRUE, !.rotationShip = FirstSelected(c),
              !.rotationStartPos = p, !.rotationCurrentPos = p]

\* A click at p: pointerdown and pointerup at p; append is the shift key.
Ordered(c, p, append) == finishRotation(Started(c, p), p, append)

\* The first waypoint of a movement run, from the first corvette's place:
\* inside the arrive threshold, one or two frames away, to the side.
FirstLegs == {<<-2, 0>>, <<-12, 0>>, <<-20, 0>>, <<-35, 0>>, <<-30, -40>>}

\* The second waypoint, from the first; <<0, 0>> for none.
SecondLegs == {<<0, 0>>, <<0, -15>>}

\* create(), then a click that gives the first corvette its first waypoint,
\* and a shift-click that appends the second.
MoveOrders(first, second) ==
    LET c0 == Created(FormationShips(
                  [positions |-> CreatePositions, goRot |-> HalfPI], 0, 1))
        p1 == VAdd(CreatePositions[1], first)
        c1 == Ordered(c0, p1, FALSE)
    IN  IF second = <<0, 0>> THEN c1
        ELSE Ordered(c1, VAdd(p1, second), TRUE)

\* The movement runs: the orders given, the enemy wandering away from the
\* corvettes, then frames only.
InitMove ==
    \E first \in FirstLegs, second \in SecondLegs :
        InitScene(MoveOrders(first, second), <<0, 1>>, "pointerup")

SpecMove == InitMove /\ [][NextBattle]_vars

\* The directions a drag along an axis gives (Math.atan2 of the drag), which
\* are also the rotations a ship comes to rest at.
AxisAngles == {-HalfPI, 0, HalfPI, PI}

\* The rotations of a ship at rest, one second into a turn, and past half a
\* turn while it turns on from PI.
TurnAngles == AxisAngles \cup {-HalfPI + 200, PI + 200}

\* The turning runs: the scene of create() at a later time, the first
\* corvette at rotation r with a drag's direction t as its target rotation.
InitTurn ==
    \E r \in TurnAngles, t \in AxisAngles :
        InitScene(
            Created([FormationShips([positions |-> CreatePositions,
                                     goRot |-> HalfPI], 0, 1)
                        EXCEPT ![1].rotation = r, ![1].goRot = r,
                               ![1].targetRotation = t]),
            <<0, 1>>, "pointerup")

SpecTurn == InitTurn /\ [][NextBattle]_vars

\* The frame times of the runs that never end.
LiveDeltas == {1000}

\* A frame at any time: in the movement runs nothing fires and the wander
\* timer never comes due, so the frames read the clock nowhere, and the clock
\* is left at MaxTime once it is there.
LateTick(delta) ==
    \E time \in {Min(now + delta, MaxTime)} :
        \E roll \in Rolls(time) : Frame(time, delta, roll)

NextLive == \E delta \in LiveDeltas : LateTick(delta)

\* A step that counts a frame: every frame does, and no other step.
FrameCounted == frame' = 1 - frame

\* The movement runs with the game loop running for ever: Phaser calls
\* update() once per frame as long as the scene is active, so a frame is
\* always counted again.
SpecLive == InitMove /\ [][NextLive]_vars /\ WF_frame(FrameCounted)

\* The orbit runs.  The scene of create() with the second corvette moved to
\* 30 px right of the first by an earlier order; then the first corvette is
\* ordered to a point 15 px short of the second, the second is clicked (which
\* selects it) and ordered to the point 40 px right of it.  The dot of that
\* waypoint is the handle of an orbit; commands and frames follow.
InitOrbit ==
    LET positions == <<CreatePositions[1],
                       VAdd(CreatePositions[1], <<30, 0>>),
                       CreatePositions[3]>>
        c0 == Created(FormationShips(
                  [positions |-> positions, goRot |-> HalfPI], 0, 1))
        c1 == Ordered(c0, VAdd(positions[1], <<15, 0>>), FALSE)
        c2 == Ordered(selectOnlyShip(c1, 2), VAdd(positions[2], <<40, 0>>),
                      FALSE)
    IN  InitScene(c2, <<0, 1>>, "pointerup")

SpecOrbit == InitOrbit /\ [][Next]_vars

(***************************************************************************)
(* Properties.                                                             *)
(***************************************************************************)
\* The projectiles that hit a ship in the last frame.
HitBullets == {hits[i].bullet : i \in 1..Len(hits)}

\* The removals of the last frame that a hit of projectile b made.
RemovedBy(b) ==
    {k \in 1..Len(removed) : removed[k].cause = "hit" /\ removed[k].by = b}

\* C1: in one frame a projectile damages at most one ship, the first ship in
\* list order within its hit radius, and its hit takes exactly one projectile
\* out of the live collection.
C1_OneHitPerProjectile ==
    /\ \A i, j \in 1..Len(hits) : hits[i].bullet = hits[j].bullet => i = j
    /\ \A b \in HitBullets : Cardinality(RemovedBy(b)) = 1

\* C2: a projectile leaves the live collection only in a frame in which that
\* same projectile expired, left the world or hit a ship: the removal a
\* projectile causes never takes out another projectile.
C2_OnlyOwnRemoval ==
    \A k \in 1..Len(removed) :
        /\ removed[k].cause \in {"expired", "bounds", "hit"}
        /\ removed[k].id = removed[k].by
        /\ removed[k].cause = "hit" => removed[k].id \in HitBullets

\* C3: after every handler no ship with health <= 0 is in the ship list, the
\* enemy list, the selection, the orbit map or the wander maps: destroyShip
\* takes it out of all of them in the frame of the fatal hit.
C3_DeadShipsRemoved ==
    \A s \in ShipIds :
        shipObjs[s].health <= 0 =>
            /\ s \notin Range(ships)
            /\ s \notin Range(enemyShips)
            /\ s \notin Range(selectedShips)
            /\ s \notin DOMAIN circularPaths
            /\ s \notin DOMAIN enemyMovementTimers
            /\ s \notin DOMAIN enemyMovementDirections

\* A frame destroyed a ship that was selected and on an orbit.
C3_Witness ==
    \E i \in 1..Len(destroyed) :
        /\ destroyed[i].selected
        /\ destroyed[i].orbit
        /\ shipObjs[destroyed[i].ship].health <= 0

\* C8: every ship has 0 <= health <= maxHealth in every state: a hit never
\* leaves negative health and health never exceeds the health of creation.
C8_HealthInRange ==
    \A s \in ShipIds :
        /\ 0 <= shipObjs[s].health
        /\ shipObjs[s].health <= shipObjs[s].maxHealth

\* A hit of the last frame took a ship's health to exactly 0.
C8_Witness ==
    \E i \in 1..Len(hits) :
        /\ hits[i].damage > 0
        /\ shipObjs[hits[i].ship].health = 0

\* The firing interval of ship s in milliseconds: 1000 / fireRate.
FireInterval(s) ==
    1000000 \div ShipData(shipObjs[s].type, corvetteSpeed).fireRate1000

\* The projectiles of shooter s spawned at time t that the last frame left
\* alive or took out.
Spawned(s, t) ==
    {i \in 1..Len(bullets) : bullets[i].id = <<s, t>>}
      \cup {k \in 1..Len(removed) : removed[k].id = <<s, t>>}

\* C9: a fire attempt spawns a projectile and sets lastFireTime to the current
\* time exactly when at least 1000/fireRate ms have passed since the
\* shooter's previous shot; an earlier attempt spawns nothing and leaves
\* lastFireTime as it was.
C9_FireRateGate ==
    \A i \in 1..Len(shots) :
        LET a == shots[i]
        IN  /\ a.fired <=> a.time - a.last >= FireInterval(a.shooter)
            /\ a.fired =>
                   /\ shipObjs[a.shooter].lastFireTime = a.time
                   /\ Spawned(a.shooter, a.time) # {}
            /\ ~a.fired =>
                   /\ shipObjs[a.shooter].lastFireTime = a.last
                   /\ Spawned(a.shooter, a.time) = {}

\* A shooter that has fired before fires again exactly one interval later.
C9_Witness ==
    \E i \in 1..Len(shots) :
        /\ shots[i].fired
        /\ shots[i].last > 0
        /\ shots[i].time - shots[i].last = FireInterval(shots[i].shooter)

\* A shooter's attempt before its interval has passed spawned nothing.
C9_WitnessRefused ==
    \E i \in 1..Len(shots) :
        /\ ~shots[i].fired
        /\ shots[i].last > 0

\* The position updateBullets moves projectile i of the state to in a frame
\* of delta ms.
MovedTo(i, delta) ==
    <<bullets[i].pos[1] + DivT(bulletVelocities[i][1] * delta, 1000),
      bullets[i].pos[2] + DivT(bulletVelocities[i][2] * delta, 1000)>>

\* C10: a frame of delta ms takes exactly delta off the lifetime of every
\* projectile (a projectile spawned in the frame starts from bulletLifetime);
\* a projectile whose lifetime is then <= 0, or that is outside the world, is
\* taken out in that frame without a collision test, and no projectile is
\* taken out twice.
C10_Lifetime ==
    [][lastOp' = "update" =>
        /\ \A i \in 1..Len(bullets') :
               LET old == {j \in 1..Len(bullets) : bullets[j].id = bullets'[i].id}
               IN  /\ \A j \in old :
                          bulletTimers'[i] = bulletTimers[j] - lastDelta'
                   /\ old = {} =>
                          bulletTimers'[i] = bulletLifetime - lastDelta'
                   /\ bulletTimers'[i] > 0
                   /\ ~OutOfWorld(bullets'[i].pos)
        /\ \A j \in 1..Len(bullets) :
               LET id == bullets[j].id
                   dead == \/ bulletTimers[j] - lastDelta' <= 0
                           \/ OutOfWorld(MovedTo(j, lastDelta'))
                   out == {k \in 1..Len(removed') : removed'[k].id = id}
               IN  /\ dead => /\ out # {}
                              /\ \A k \in out : removed'[k].cause
                                                   \in {"expired", "bounds"}
                              /\ id \notin tested'
                   /\ ~dead => id \in tested'
                   /\ out = {} <=> \E i \in 1..Len(bullets') :
                                       bullets'[i].id = id
        /\ \A k, l \in 1..Len(removed') :
               removed'[k].id = removed'[l].id => k = l
    ]_vars

\* A frame took out a projectile whose lifetime had run out.
C10_Witness ==
    \E k \in 1..Len(removed) : removed[k].cause = "expired"

\* The ships the last frame destroyed.
DestroyedNow == {destroyed[i].ship : i \in 1..Len(destroyed)}

\* C4: a ship whose follow target was destroyed has dropped the reference by
\* the end of the next frame: a follow target that is not in the ship list
\* was destroyed in the last frame.
C4_FollowReleased ==
    \A a \in Range(ships) :
        shipObjs[a].followTarget # 0 =>
            \/ shipObjs[a].followTarget \in Range(ships)
            \/ shipObjs[a].followTarget \in DestroyedNow

\* C5: the enemy the gesture is locked to, or targets, is a live ship: the
\* destruction of that enemy releases the lock and the targeting.
C5_GestureRefersToLiveShip ==
    /\ lockedEnemy # 0 => lockedEnemy \in Range(ships)
    /\ targetedEnemy # 0 => targetedEnemy \in Range(ships)

\* The movement modes ship s is in.
Modes(s) ==
    (IF Len(shipObjs[s].waypoints) > 0 THEN {"Waypoint"} ELSE {})
      \cup (IF s \in DOMAIN circularPaths THEN {"Orbit"} ELSE {})
      \cup (IF shipObjs[s].followTarget # 0 THEN {"Follow"} ELSE {})

\* C6: every ship is in at most one of the modes Waypoint (a non-empty
\* queue), Orbit (an orbit descriptor) and Follow (a follow target).
C6_OneMode ==
    \A s \in Range(ships) : Cardinality(Modes(s)) <= 1

\* C7: every ship has 0 <= currentSpeed <= the speed its type is configured
\* with at the moment, whatever the frames, commands and slider changes.
C7_SpeedInRange ==
    \A s \in Range(ships) :
        /\ 0 <= shipObjs[s].currentSpeed
        /\ shipObjs[s].currentSpeed
               <= ShipData(shipObjs[s].type, corvetteSpeed).speed * 1000

\* C11: a projectile never damages the ship that fired it, and every other
\* ship of the list, enemy or not, within its hit radius is hit: no hit of a
\* frame is on the projectile's shooter, and no projectile a frame leaves
\* alive is within the hit radius of a ship other than its shooter.
C11_NeverOwnShooter ==
    /\ \A i \in 1..Len(hits) : hits[i].ship # hits[i].bullet[1]
    /\ \A i \in 1..Len(bullets) :
           /\ bulletShooters[i] = bullets[i].id[1]
           /\ \A s \in Range(ships) :
                  s # bulletShooters[i] => ~InHitRadius(World, bullets[i].pos, s)

\* A frame tested a projectile that is within the hit radius of its own
\* shooter and left it alive.
C11_Witness ==
    \E i \in 1..Len(bullets) :
        /\ bullets[i].id \in tested
        /\ bulletShooters[i] \in Range(ships)
        /\ InHitRadius(World, bullets[i].pos, bulletShooters[i])

\* A corvette's projectile hit the other corvette.
C11_FriendlyHit ==
    \E i \in 1..Len(hits) :
        /\ ShipType(hits[i].ship) = "corvette"
        /\ ShipType(hits[i].bullet[1]) = "corvette"

\* The ships of the list that are not enemies and have their centre in the
\* box between the corners a and b, the edges included.
InBox(a, b) ==
    {s \in Range(ships) :
        /\ shipObjs[s].type # "enemy"
        /\ Min(a[1], b[1]) <= shipObjs[s].pos[1]
        /\ shipObjs[s].pos[1] <= Max(a[1], b[1])
        /\ Min(a[2], b[2]) <= shipObjs[s].pos[2]
        /\ shipObjs[s].pos[2] <= Max(a[2], b[2])}

\* The selection holds ships of the list that are not enemies, each once.
SelectionValid ==
    /\ \A i \in 1..Len(selectedShips) :
           /\ selectedShips[i] \in Range(ships)
           /\ shipObjs[selectedShips[i]].type # "enemy"
    /\ \A i, j \in 1..Len(selectedShips) :
           selectedShips[i] = selectedShips[j] => i = j

\* C12: the selection holds only ships of the ship list that are not enemies;
\* a pointerdown that changes the selection leaves exactly the ship under the
\* pointer selected, and the pointerup that ends a box selection leaves
\* exactly the non-enemy ships with their centre in the box, edges included.
C12_Selection ==
    /\ []SelectionValid
    /\ [][/\ lastOp' = "pointerdown" /\ selectedShips' # selectedShips =>
               /\ Len(selectedShips') = 1
               /\ shipObjs[selectedShips'[1]].type # "enemy"
               /\ ShipContains(shipObjs[selectedShips'[1]], rotationStartPos')
          /\ lastOp' = "pointerup" /\ isBoxSelecting =>
               /\ ~isBoxSelecting'
               /\ Range(selectedShips') = InBox(boxStart, boxEnd)
          /\ lastOp' \in {"pointermove", "slider"} =>
               selectedShips' = selectedShips
         ]_vars

\* A box selection with the enemy in the box and a corvette on its edge has
\* ended and selected the corvette.
C12_Witness ==
    /\ lastOp = "pointerup"
    /\ ~isBoxSelecting
    /\ boxStart # boxEnd
    /\ selectedShips # <<>>
    /\ Range(selectedShips) = InBox(boxStart, boxEnd)
    /\ \E e \in Range(enemyShips) :
           /\ Min(boxStart[2], boxEnd[2]) <= shipObjs[e].pos[2]
           /\ shipObjs[e].pos[2] <= Max(boxStart[2], boxEnd[2])
           /\ Min(boxStart[1], boxEnd[1]) <= shipObjs[e].pos[1]
           /\ shipObjs[e].pos[1] <= Max(boxStart[1], boxEnd[1])
    /\ \E s \in Range(selectedShips) :
           shipObjs[s].pos[1] \in {boxStart[1], boxEnd[1]}

\* A pointerdown on a corvette made it the selection in place of another one.
C12_WitnessClick ==
    /\ lastOp = "pointerdown"
    /\ selectedShips = <<2>>

\* The last waypoint of ship s in the next state is at the point p.
LastWaypointAt(s, p) ==
    /\ shipObjs'[s].waypoints # <<>>
    /\ shipObjs'[s].waypoints[Len(shipObjs'[s].waypoints)] = p

\* C13: the pointerup that ends a gesture gives every selected ship a waypoint
\* at the locked waypoint position if the gesture is locked at that moment,
\* and at the start point of the gesture otherwise.
C13_WaypointPosition ==
    [][lastOp' = "pointerup" /\ ~isBoxSelecting /\ isRotating
         /\ rotationShip # 0 =>
           \A s \in Range(selectedShips) :
               LastWaypointAt(s, IF isWaypointLocked
                                 THEN lockedWaypointPosition
                                 ELSE rotationStartPos)
      ]_vars

\* C14: after a gesture update, targeting and lock are active only for a
\* hostile within targetingReleaseRange of the cursor.
C14_Hysteresis ==
    lastOp = "pointermove" /\ ~isBoxSelecting /\ isRotating /\ rotationShip # 0 =>
        /\ isTargeting /\ targetedEnemy # 0 =>
               ~BeyondRelease(rotationCurrentPos, targetedEnemy)
        /\ isWaypointLocked /\ lockedEnemy # 0 =>
               ~BeyondRelease(rotationCurrentPos, lockedEnemy)

\* Ship s steers to a target of its own: it has one and follows no ship.
Steering(s) == shipObjs[s].followTarget = 0 /\ shipObjs[s].target # Null

\* The whole pixels of the straight-line step of ship s in a frame of delta
\* ms: the speed is the one the frame's speed block leaves.
StepOf(s, delta) ==
    LET shipData == ShipData(shipObjs[s].type, corvetteSpeed)
        sh == accelerateShip(turnShip(shipObjs[s], shipData, delta),
                             shipData, delta)
    IN  (sh.currentSpeed * delta) \div 1000000

\* The step of ship s in a frame of delta ms is at least the distance left.
StepReaches(s, delta) ==
    StepOf(s, delta) * StepOf(s, delta)
        >= Dist2(shipObjs[s].pos, shipObjs[s].target)

\* Ship s is within the arrive threshold of its target.
InThreshold(s) ==
    Dist2(shipObjs[s].pos, shipObjs[s].target)
        < arriveThreshold * arriveThreshold

\* The waypoint queue of ship s lost its head in this step.
QueueShifted(s) ==
    shipObjs'[s].waypoints =
        IF shipObjs[s].waypoints = <<>> THEN <<>> ELSE Tail(shipObjs[s].waypoints)

\* C15: in a frame, the waypoint queue of a ship that steers to its first
\* waypoint loses exactly that waypoint if the ship arrives at it (it is
\* within the arrive threshold, or its step covers the distance left), and
\* is left as it was otherwise.
C15_QueueShrinksOnArrival ==
    [][lastOp' = "update" =>
         \A s \in Range(ships) \cap Range(ships') :
             Steering(s) /\ shipObjs[s].waypoints # <<>> =>
                 IF InThreshold(s) \/ StepReaches(s, lastDelta')
                 THEN QueueShifted(s)
                 ELSE shipObjs'[s].waypoints = shipObjs[s].waypoints
      ]_vars

\* C16: in a frame in which the straight-line step of a ship covers the
\* distance left to its target, the ship ends on the target and the arrival
\* is registered: the queue moves on to the next waypoint.
C16_NoOvershoot ==
    [][lastOp' = "update" =>
         \A s \in Range(ships) \cap Range(ships') :
             Steering(s) /\ StepReaches(s, lastDelta') =>
                 /\ shipObjs'[s].pos = shipObjs[s].target
                 /\ QueueShifted(s)
      ]_vars

\* The first corvette has come to rest on the last waypoint it was given
\* (the start point of the last gesture): its queue is empty and it has no
\* target.
AtLastWaypoint ==
    /\ shipObjs[1].waypoints = <<>>
    /\ shipObjs[1].target = Null
    /\ shipObjs[1].pos = rotationStartPos

\* C17: with frames running for ever and no command, a ship that has a
\* waypoint queue and follows no ship reaches every waypoint of the queue and
\* comes to rest on the last one, idle, its queue empty.
C17_ReachesEveryWaypoint ==
    shipObjs[1].waypoints # <<>> /\ shipObjs[1].followTarget = 0
        ~> AtLastWaypoint

\* The angle x brought into (-PI, PI] by whole turns.
WrapHalfOpen(x) ==
    IF (x % TwoPI) > PI THEN (x % TwoPI) - TwoPI ELSE x % TwoPI

\* The turn ship s has left: its target rotation less its rotation, wrapped
\* into (-PI, PI].
TurnLeft(s) == WrapHalfOpen(shipObjs[s].targetRotation - shipObjs[s].rotation)

\* The most a ship of s's type turns in a frame of delta ms.
TurnStep(s, delta) ==
    (ShipData(shipObjs[s].type, corvetteSpeed).rotationSpeed * delta) \div 1000

\* C18: in a frame a ship's rotation is set to the target rotation if the
\* turn left, wrapped into (-PI, PI], is smaller than one step; otherwise it
\* moves by at most one step in the direction of the sign of the wrapped turn
\* left, so that half a turn is always taken in the positive direction.
C18_ShorterPath ==
    [][lastOp' = "update" =>
         \A s \in Range(ships) \cap Range(ships') :
             IF Abs(TurnLeft(s)) < TurnStep(s, lastDelta')
             THEN shipObjs'[s].rotation = shipObjs[s].targetRotation
             ELSE /\ Sign(shipObjs'[s].rotation - shipObjs[s].rotation)
                         = Sign(TurnLeft(s))
                  /\ Abs(shipObjs'[s].rotation - shipObjs[s].rotation)
                         <= TurnStep(s, lastDelta')
      ]_vars

\* The player ship the enemy e would chase from where the ships are now: the
\* closest one within its detection range; 0 for none.
ChasedNow(e) ==
    ClosestPlayer([ships |-> ships, shipObjs |-> shipObjs], shipObjs[e].pos,
                  ShipData("enemy", corvetteSpeed).detectionRange, 1,
                  <<0, 0>>)[1]

\* C19: the stages of a frame run in a fixed order, all movement of the
\* ships, orbits included, before the AI decisions: after a frame that
\* destroyed no ship, an enemy that chases a player ship steers to the place
\* that ship has after the frame's movement.
C19_MovementBeforeAI ==
    lastOp = "update" /\ destroyed = <<>> =>
        \A e \in Range(enemyShips) :
            ChasedNow(e) # 0 =>
                shipObjs[e].target = ClampToWorld(shipObjs[ChasedNow(e)].pos)

\* C20: a command that has no ship to act on is a silent no-op.  A click on
\* the enemy (the follow command) while no ship is selected changes nothing
\* at all; the end of a gesture while no ship is selected changes no ship and
\* no orbit, selects nothing and ends the gesture; frames go on after both.
C20_SilentNoOp ==
    [][/\ /\ lastOp' = "pointerdown" /\ selectedShips = <<>>
          /\ selectedShips' = <<>> /\ ~isBoxSelecting'
          /\ circularPaths' = circularPaths
          => UNCHANGED <<shipObjs, ships, enemyShips, gestureVars, bulletVars,
                         now>>
       /\ /\ lastOp' = "pointerup" /\ selectedShips = <<>>
          /\ ~isBoxSelecting /\ isRotating
          => /\ UNCHANGED <<shipObjs, circularPaths, ships, enemyShips,
                            selectedShips, bulletVars, now>>
             /\ ~isRotating' /\ rotationShip' = 0
       /\ lastOp = "pointerup" /\ selectedShips = <<>> /\ lastOp' = "update"
          => now' > now /\ lastDelta' > 0
      ]_vars

\* A gesture was started, the selected ship was destroyed, and the gesture
\* was ended with no ship selected.
C20_Witness ==
    /\ lastOp = "pointerup" /\ commandCount = 2
    /\ selectedShips = <<>> /\ ~isBoxSelecting /\ ~isRotating
    /\ rotationStartPos # <<0, 0>>

\* The enemy was clicked with no ship selected.
C20_WitnessFollow ==
    /\ lastOp = "pointerdown" /\ selectedShips = <<>> /\ ~isBoxSelecting

\* A frame ran after a gesture that ended with no ship selected.
C20_WitnessFrame ==
    /\ lastOp = "update" /\ commandCount = 2
    /\ selectedShips = <<>> /\ ~isBoxSelecting /\ ~isRotating
    /\ rotationStartPos # <<0, 0>> /\ shipObjs[1].waypoints = <<>>

\* The most the distance of a ship on an orbit differs from the radius by the
\* rounding of the model's sine, cosine and square root (pixels).
OrbitTolerance == 2

\* Ship s is at the radius of its orbit from the centre of the orbit.
OnOrbit(s) ==
    Abs(Dist(shipObjs[s].pos, circularPaths[s].center) - circularPaths[s].radius)
        <= OrbitTolerance

\* C21: at the end of every frame, a ship that has an orbit descriptor is at
\* the orbit's radius from the orbit's centre, whatever its speed and
\* whatever the separation nudge and the follow steering did in the frame.
C21_OrbitRadius ==
    lastOp = "update" =>
        \A s \in DOMAIN circularPaths \cap Range(ships) : OnOrbit(s)

\* The state the follow command leaves: the last handler was a pointerdown on
\* an enemy, the first selected ship follows it with an empty queue and the
\* seeded target, and the gesture the handler opened starts at the indicator
\* point above the followed ship.
FollowClicked ==
    /\ lastOp = "pointerdown" /\ isRotating /\ rotationShip # 0
    /\ selectedShips # <<>> /\ rotationShip = selectedShips[1]
    /\ shipObjs[rotationShip].followTarget \in Range(enemyShips)
    /\ shipObjs[rotationShip].waypoints = <<>>
    /\ shipObjs[rotationShip].target =
           FollowPoint(shipObjs[shipObjs[rotationShip].followTarget],
                       followSeedDistance)
    /\ rotationStartPos =
           VAdd(shipObjs[shipObjs[rotationShip].followTarget].pos,
                <<0, -followIndicatorOffset>>)

\* C22: a click on an enemy while a player ship is selected makes the first
\* selected ship follow that enemy and issues no waypoint: the pointerdown
\* (the only one that changes a ship without starting an orbit) leaves the
\* state of the follow command, and the pointerup that completes the click
\* keeps the follow target and adds no waypoint to the queue of any selected
\* ship.
C22_FollowNoWaypoint ==
    [][/\ /\ lastOp' = "pointerdown" /\ shipObjs' # shipObjs
          /\ circularPaths' = circularPaths
          => FollowClicked'
       /\ FollowClicked /\ lastOp' = "pointerup" =>
              /\ shipObjs'[rotationShip].followTarget
                     = shipObjs[rotationShip].followTarget
              /\ \A s \in Range(selectedShips) :
                     shipObjs'[s].waypoints = shipObjs[s].waypoints
      ]_vars

\* Where a frame of delta ms leaves ship s if it steers to the point p: the
\* step of moveToward at the speed the frame's speed block leaves.
SteeredTo(s, p, delta) ==
    LET shipData == ShipData(shipObjs[s].type, corvetteSpeed)
        sh == accelerateShip(turnShip(shipObjs[s], shipData, delta),
                             shipData, delta)
    IN  moveToward(sh, p, sh.currentSpeed, delta).pos

\* Ship s follows a ship of the list and is on no orbit.
Following(s) ==
    /\ shipObjs[s].followTarget \in Range(ships)
    /\ s \notin DOMAIN circularPaths

\* C23: the point a follower steers to is at one fixed distance behind the
\* followed ship, the same for the target the follow command seeds and for
\* the target of every frame: a frame moves a follower as a step to the
\* point followSeedDistance behind the place and facing the followed ship
\* has at the start of the frame.
C23_FollowOffset ==
    [][lastOp' = "update" =>
         \A s \in Range(ships) \cap Range(ships') :
             Following(s) =>
                 shipObjs'[s].pos =
                     SteeredTo(s, FollowPoint(shipObjs[shipObjs[s].followTarget],
                                              followSeedDistance),
                               lastDelta')
      ]_vars

\* Ship s is within the arrive threshold of the point offset behind the ship
\* it follows.
AtFollowPoint(s, offset) ==
    Dist2(shipObjs[s].pos,
          FollowPoint(shipObjs[shipObjs[s].followTarget], offset))
        < arriveThreshold * arriveThreshold

\* C24: a follower that has not reached its follow point has its type's speed
\* as desired speed in every frame, with or without waypoints in its queue:
\* a frame never leaves it slower than it was, up to the speed of its type.
C24_FollowerKeepsSpeed ==
    [][lastOp' = "update" =>
         \A s \in Range(ships) \cap Range(ships') :
             /\ Following(s)
             /\ ~AtFollowPoint(s, followOffsetDistance)
             /\ ~AtFollowPoint(s, followSeedDistance)
             => shipObjs'[s].currentSpeed >=
                    Min(shipObjs[s].currentSpeed,
                        ShipData(shipObjs[s].type, corvetteSpeed).speed * 1000)
      ]_vars

\* This step is a pointermove that updates a gesture in progress: it runs
\* drawRotationIndicator.
GestureUpdated ==
    /\ lastOp' = "pointermove"
    /\ ~isBoxSelecting /\ isRotating /\ rotationShip # 0

\* The most the distance of the locked waypoint from the enemy differs from
\* the locked distance by the rounding of the model's vectors (pixels).
LockTolerance == 2

\* The lock of the next state was entered by this step, in the way the
\* gesture update enters it.
LockEntered ==
    /\ GestureUpdated
    /\ lockedEnemy' = findNearestEnemy(rotationCurrentPos')
    /\ Dist2(rotationCurrentPos', shipObjs[lockedEnemy'].pos)
           <= targetingSnapRange * targetingSnapRange
    /\ Dist2(rotationStartPos', rotationCurrentPos')
           > dragThreshold * dragThreshold
    /\ lockedDistance' = Dist(rotationCurrentPos', shipObjs[lockedEnemy'].pos)

\* The locked waypoint of the next state is on the ray from the locked enemy
\* to the cursor, at the locked distance from the enemy.
LockedWaypointPlaced ==
    LET enemyPos == shipObjs'[lockedEnemy'].pos
    IN  /\ lockedWaypointPosition' =
               VAdd(enemyPos, ScaleTo(VSub(rotationCurrentPos', enemyPos),
                                      lockedDistance'))
        /\ Abs(Dist(lockedWaypointPosition', enemyPos) - lockedDistance')
               <= LockTolerance

\* C25: a gesture update enters the lock only when the cursor is within
\* targetingSnapRange of the nearest enemy and more than the drag threshold
\* from the start of the gesture, and no lock is active; the locked distance
\* is the distance from the cursor to that enemy at that update and stays as
\* it is while the lock lasts; after every gesture update that leaves the
\* lock active the locked waypoint is at the locked distance from the enemy,
\* towards the cursor.
C25_LockedDistance ==
    [][/\ ~isWaypointLocked /\ isWaypointLocked' => LockEntered
       /\ isWaypointLocked /\ isWaypointLocked' =>
              /\ lockedDistance' = lockedDistance
              /\ lockedEnemy' = lockedEnemy
       /\ GestureUpdated /\ isWaypointLocked' => LockedWaypointPlaced
      ]_vars

\* This step is a pointerup that ends a gesture: it runs finishRotation.
GestureEnded ==
    /\ lastOp' = "pointerup"
    /\ ~isBoxSelecting /\ isRotating /\ rotationShip # 0

\* This step is a pointerdown that starts a gesture: it leaves a gesture in
\* progress and sets its ship or its points.
GestureStarted ==
    /\ lastOp' = "pointerdown" /\ isRotating'
    /\ <<isRotating, rotationShip, rotationStartPos, rotationCurrentPos>>'
           # <<isRotating, rotationShip, rotationStartPos, rotationCurrentPos>>

\* C26: the lock and the targeting never outlive their gesture.  After every
\* gesture end no gesture is in progress and neither is active; neither is
\* active while no gesture is in progress; and a pointerdown that starts a
\* gesture leaves no lock or targeting of an earlier gesture: no lock is
\* active after it, and targeting only on the nearest enemy, within
\* targetingSnapRange of the new start point.
C26_GestureScoped ==
    [][/\ GestureEnded =>
              ~isRotating' /\ ~isWaypointLocked' /\ ~isTargeting'
       /\ ~isRotating' => ~isWaypointLocked' /\ ~isTargeting'
       /\ GestureStarted =>
              /\ ~isWaypointLocked'
              /\ isTargeting' =>
                     /\ targetedEnemy' = findNearestEnemy(rotationStartPos')
                     /\ Dist2(rotationStartPos', shipObjs[targetedEnemy'].pos)
                            <= targetingSnapRange * targetingSnapRange
      ]_vars

\* The last element of a non-empty sequence.
Last(q) == q[Len(q)]

\* The desired rotation of a waypoint given by a gesture from start to p to a
\* ship whose target rotation is rot: the angle of the drag if it is longer
\* than the drag threshold, rot otherwise.
DesiredRotation(start, p, rot) ==
    IF Dist2(start, p) > dragThreshold * dragThreshold
    THEN Atan2(p[2] - start[2], p[1] - start[1])
    ELSE rot

\* This step gave ship s one new waypoint as a gesture that ends at p does,
\* appending or not.
WaypointGiven(s, p, append) ==
    LET old == shipObjs[s]
        new == shipObjs'[s]
        rot == DesiredRotation(rotationStartPos, p, old.targetRotation)
    IN  /\ new.waypoints # <<>>
        /\ IF append /\ old.waypoints # <<>>
           THEN /\ new.waypoints = Append(old.waypoints, Last(new.waypoints))
                /\ new.waypointDirections = Append(old.waypointDirections, rot)
                /\ new.target = old.target
                /\ new.targetRotation = old.targetRotation
           ELSE /\ Len(new.waypoints) = 1
                /\ new.waypointDirections = <<rot>>
                /\ new.target = new.waypoints[1]

C27_WitnessReplace ==
    /\ lastOp = "pointerup" /\ ~isRotating /\ commandCount = 3
    /\ \E s \in Range(selectedShips) :
           /\ Len(shipObjs[s].waypoints) = 1
           /\ shipObjs[s].waypoints[1] = rotationStartPos
           /\ rotationCurrentPos # rotationStartPos
           /\ shipObjs[s].waypointDirections[1] # HalfPI

\* Another ship of the list is within the separation distance of the point p
\* before or after this step.
ShipNear(s, p) ==
    \E o \in Range(ships) \ {s} :
        \/ Dist2(shipObjs[o].pos, p)
               < separationMinDistance * separationMinDistance
        \/ Dist2(shipObjs'[o].pos, p)
               < separationMinDistance * separationMinDistance

\* This step leaves ship s on the point p; a ship left idle with another ship
\* near p may be one separation nudge of the frame away from it.
LeftOn(s, p) ==
    \/ shipObjs'[s].pos = p
    \/ /\ shipObjs'[s].waypoints = <<>>
       /\ ShipNear(s, p)
       /\ Dist2(shipObjs'[s].pos, p)
              <= ((separationForce * lastDelta') \div 1000)
                     * ((separationForce * lastDelta') \div 1000)

\* C28: a frame in which a ship that steers to the front of its queue arrives
\* there puts the ship on that waypoint, makes the rotation stored with the
\* waypoint its target rotation and removes the front of the queue, position
\* and rotation together; if the queue is then empty the ship ends the frame
\* with no target and no pathStart, otherwise its target is the new front.
C28_Arrival ==
    [][lastOp' = "update" =>
         \A s \in Range(ships) \cap Range(ships') :
             /\ Steering(s) /\ shipObjs[s].waypoints # <<>>
             /\ shipObjs'[s].waypoints # shipObjs[s].waypoints
             => /\ LeftOn(s, Head(shipObjs[s].waypoints))
                /\ shipObjs'[s].targetRotation
                       = Head(shipObjs[s].waypointDirections)
                /\ shipObjs'[s].waypoints = Tail(shipObjs[s].waypoints)
                /\ shipObjs'[s].waypointDirections
                       = Tail(shipObjs[s].waypointDirections)
                /\ IF shipObjs'[s].waypoints = <<>>
                   THEN /\ shipObjs'[s].target = Null
                        /\ shipObjs'[s].pathStart = Null
                   ELSE shipObjs'[s].target = Head(shipObjs'[s].waypoints)
      ]_vars

\* The first corvette has arrived at the first of two waypoints: it stands on
\* the start of the leg to the one that is left, which is its target.
C28_Witness ==
    /\ lastOp = "update"
    /\ Len(shipObjs[1].waypoints) = 1
    /\ Len(shipObjs[1].waypointDirections) = 1
    /\ shipObjs[1].target = shipObjs[1].waypoints[1]
    /\ shipObjs[1].pathStart = shipObjs[1].pos
    /\ shipObjs[1].pos # CreatePositions[1]
    /\ shipObjs[1].pos # shipObjs[1].target

\* The first corvette has arrived at its last waypoint and is idle on it.
C28_WitnessIdle ==
    /\ lastOp = "update"
    /\ shipObjs[1].waypoints = <<>> /\ shipObjs[1].waypointDirections = <<>>
    /\ shipObjs[1].target = Null /\ shipObjs[1].pathStart = Null
    /\ shipObjs[1].pos = rotationStartPos
    /\ shipObjs[1].pos # CreatePositions[1]

\* The ships the frame that ends in the next state destroyed.
DestroyedNext == {destroyed'[i].ship : i \in 1..Len(destroyed')}

\* C29: orbit and waypoints never coexist on a ship.  A step that gives a
\* ship an orbit descriptor leaves it with an empty queue and no target; a
\* gesture end leaves no selected ship with an orbit descriptor; in every
\* state a ship with an orbit descriptor has an empty queue; and a ship loses
\* its orbit descriptor only by a gesture end while it is selected (a new
\* waypoint command) or by its destruction in a frame.
C29_OrbitExcludesWaypoints ==
    /\ [](\A s \in DOMAIN circularPaths : shipObjs[s].waypoints = <<>>)
    /\ [][\A s \in ShipIds :
            /\ s \notin DOMAIN circularPaths /\ s \in DOMAIN circularPaths' =>
                   /\ lastOp' = "pointerdown"
                   /\ shipObjs'[s].waypoints = <<>>
                   /\ shipObjs'[s].target = Null
            /\ GestureEnded /\ s \in Range(selectedShips) =>
                   s \notin DOMAIN circularPaths'
            /\ s \in DOMAIN circularPaths /\ s \notin DOMAIN circularPaths' =>
                   \/ GestureEnded /\ s \in Range(selectedShips)
                   \/ lastOp' = "update" /\ s \in DestroyedNext
         ]_vars

\* The second corvette has gone round a part of an orbit (it has left the
\* line it was created on) and a gesture end has taken the orbit from it and
\* given it a waypoint.
C29_Witness ==
    /\ lastOp = "pointerup" /\ ~isRotating
    /\ 2 \in Range(selectedShips)
    /\ 2 \notin DOMAIN circularPaths
    /\ shipObjs[2].pos[2] # CreatePositions[1][2]
    /\ Len(shipObjs[2].waypoints) = 1

\* The second corvette is on an orbit, with an empty queue, after a frame.
C29_WitnessOrbit ==
    /\ lastOp = "update"
    /\ 2 \in DOMAIN circularPaths
    /\ shipObjs[2].pos[2] # CreatePositions[1][2]

\* The point ship s steers to in a frame: the point offset from the ship it
\* follows, or its own target (Null for none).
SteeringPoint(s) ==
    IF shipObjs[s].followTarget # 0
    THEN FollowPoint(shipObjs[shipObjs[s].followTarget], followOffsetDistance)
    ELSE shipObjs[s].target

\* The separation step of this frame finds ship s in a mode: with waypoints
\* left in its queue, on an orbit, or following a ship.
InModeAtSeparation(s) ==
    \/ shipObjs'[s].waypoints # <<>>
    \/ s \in DOMAIN circularPaths
    \/ shipObjs[s].followTarget # 0

\* The orbit step of this frame puts ship s on its circle, whatever the
\* steps before it did.
PutOnCircle(s) ==
    s \in DOMAIN circularPaths' /\ shipObjs'[s].currentSpeed > 0

\* C30: the separation nudge displaces only idle ships.  A frame leaves a
\* ship that is in Waypoint, Orbit or Follow mode where its steering (or its
\* orbit) puts it, with no nudge added; and it leaves an idle ship without a
\* target that has no other ship within separationMinDistance where it was:
\* the nudge of one ship moves no other ship.
C30_OnlyIdleNudged ==
    [][lastOp' = "update" =>
         \A s \in Range(ships) \cap Range(ships') :
             /\ InModeAtSeparation(s) /\ ~PutOnCircle(s) =>
                    shipObjs'[s].pos = SteeredTo(s, SteeringPoint(s), lastDelta')
             /\ /\ ~InModeAtSeparation(s) /\ shipObjs[s].target = Null
                /\ ~ShipNear(s, shipObjs[s].pos)
                => shipObjs'[s].pos = shipObjs[s].pos
      ]_vars

\* The ship objects as the movement stage of a frame of delta ms leaves
\* them: the places the AI stages of the frame read.
AfterMovement(delta) == updateShipsFrom(World, 1, delta).shipObjs

\* The indices in the ship list of the non-enemy ships within the detection
\* range of the enemy e, the ships at the places objs.
Detected(objs, e) ==
    {i \in 1..Len(ships) :
        /\ objs[ships[i]].type # "enemy"
        /\ Dist2(objs[e].pos, objs[ships[i]].pos)
               <= ShipData("enemy", corvetteSpeed).detectionRange
                    * ShipData("enemy", corvetteSpeed).detectionRange}

\* The detected ship at the least distance from e, the first in list order
\* among those at that distance.
Nearest(objs, e) ==
    LET least == {i \in Detected(objs, e) :
                     \A j \in Detected(objs, e) :
                         Dist2(objs[e].pos, objs[ships[i]].pos)
                             <= Dist2(objs[e].pos, objs[ships[j]].pos)}
    IN  ships[CHOOSE i \in least : \A j \in least : i <= j]

\* The fire attempts of ship s in the frame that ends in the next state.
AttemptsNext(s) == {i \in 1..Len(shots') : shots'[i].shooter = s}

\* The projectiles in the next state that ship s spawned in the frame that
\* ends there.
SpawnedNext(s) ==
    {i \in 1..Len(bullets') : bullets'[i].id = <<s, now'>>}
      \cup {k \in 1..Len(removed') : removed'[k].id = <<s, now'>>}

\* C31: in every frame every enemy picks, among the non-enemy ships within
\* its detection range after the frame's movement, the one at the least
\* distance, the first in list order on a tie; it sets its target to that
\* ship's place clamped to the world bounds, and attempts to fire exactly when
\* the distance is within its weapon range.  With no such ship in detection
\* range it attempts no shot and spawns no projectile.
C31_EnemyPicksNearest ==
    [][lastOp' = "update" =>
         \E objs \in {AfterMovement(lastDelta')} :
             \A e \in Range(enemyShips) :
                 IF Detected(objs, e) # {}
                 THEN \E near \in {Nearest(objs, e)} :
                          /\ shipObjs'[e].target = ClampToWorld(objs[near].pos)
                          /\ Cardinality(AttemptsNext(e)) =
                                 IF Dist2(objs[e].pos, objs[near].pos)
                                        <= ShipData("enemy", corvetteSpeed).range
                                             * ShipData("enemy", corvetteSpeed).range
                                 THEN 1 ELSE 0
                 ELSE /\ AttemptsNext(e) = {}
                      /\ SpawnedNext(e) = {}
      ]_vars

\* A frame in which the enemy chased a ship beyond its weapon range: it has
\* the clamped place of a player ship within detection range as its target
\* and attempted no shot.
C31_Witness ==
    /\ lastOp = "update"
    /\ \E e \in Range(enemyShips) :
           /\ \E s \in Range(ships) :
                  /\ shipObjs[s].type # "enemy"
                  /\ shipObjs[e].target = ClampToWorld(shipObjs[s].pos)
                  /\ Dist2(shipObjs[e].pos, shipObjs[s].pos)
                         > ShipData("enemy", corvetteSpeed).range
                             * ShipData("enemy", corvetteSpeed).range
           /\ \A i \in 1..Len(shots) : shots[i].shooter # e

\* A frame in which the enemy fired at the player ship it chases.
C31_WitnessFire ==
    /\ lastOp = "update"
    /\ \E i \in 1..Len(shots) :
           /\ shots[i].shooter \in Range(enemyShips)
           /\ shots[i].fired

\* The wander timer of enemy e comes due at the time of the next state.
RerollDue(e) == now' - enemyMovementTimers[e] >= wanderInterval

\* C32: the wander direction stored for an enemy is a unit vector in every
\* state and is the same vector after a frame as before it unless the wander
\* timer came due in the frame; and a frame in which the enemy wanders (no
\* player ship within detection range after the frame's movement) sets its
\* target to its place plus wanderStep times that direction, clamped to the
\* world bounds.
C32_WanderDirection ==
    /\ [](\A e \in DOMAIN enemyMovementDirections :
              Len2(enemyMovementDirections[e]) = 1)
    /\ [][lastOp' = "update" =>
            \E objs \in {AfterMovement(lastDelta')} :
                \A e \in Range(enemyShips) \cap Range(enemyShips') :
                    /\ ~RerollDue(e) =>
                           enemyMovementDirections'[e]
                               = enemyMovementDirections[e]
                    /\ Detected(objs, e) = {} =>
                           shipObjs'[e].target =
                               ClampToWorld(
                                   <<objs[e].pos[1] + wanderStep
                                         * enemyMovementDirections'[e][1],
                                     objs[e].pos[2] + wanderStep
                                         * enemyMovementDirections'[e][2]>>)
         ]_vars

\* The world the frame that ends in the next state has before its player AI
\* stage, the re-roll of the frame drawing roll.
BeforePlayerAI(roll) ==
    updateEnemyAI(updateShipsFrom(World, 1, lastDelta'), 1, now', roll)

\* The world after the player AI stage run on the world w.
AfterPlayerAI(w) == updatePlayerAI(w, PlayerShipsOf(w), 1, now')

\* The indices in the enemy list of w of the enemies within the weapon range
\* of the ship p.
InWeaponRange(w, p) ==
    {i \in 1..Len(w.enemyShips) :
        Dist2(w.shipObjs[p].pos, w.shipObjs[w.enemyShips[i]].pos)
            <= ShipData(w.shipObjs[p].type, w.corvetteSpeed).range
                 * ShipData(w.shipObjs[p].type, w.corvetteSpeed).range}

\* The enemy within weapon range of p at the least distance, the first in
\* list order among those at that distance.
NearestHostile(w, p) ==
    LET least == {i \in InWeaponRange(w, p) :
                     \A j \in InWeaponRange(w, p) :
                         Dist2(w.shipObjs[p].pos, w.shipObjs[w.enemyShips[i]].pos)
                             <= Dist2(w.shipObjs[p].pos,
                                      w.shipObjs[w.enemyShips[j]].pos)}
    IN  w.enemyShips[CHOOSE i \in least : \A j \in least : i <= j]

\* The world w with the projectile arrays, the fire times and the frame's
\* log of attempts blanked: all that the player AI stage may not touch.
WithoutFire(w) ==
    [w EXCEPT !.bullets = <<>>, !.bulletVelocities = <<>>,
              !.bulletTimers = <<>>, !.bulletShooters = <<>>,
              !.shots = <<>>,
              !.shipObjs = [s \in DOMAIN @ |->
                               [@[s] EXCEPT !.lastFireTime = 0]]]

\* C33: the player AI stage of a frame leaves every field of the scene as it
\* found it except the projectile arrays and the fire times of player ships
\* (so position, rotation, targetRotation, target, waypoint queue, follow
\* target and orbit of every ship stay); it appends at most one projectile
\* per player ship, at the ship's place, flying at bulletSpeed towards the
\* nearest enemy within the ship's weapon range, and a ship's lastFireTime
\* changes only with such a shot, to the time of the frame.
C33_PlayerAIOnlyFires ==
    [][lastOp' = "update" =>
         \A roll \in Rolls(now') :
             \E before \in {BeforePlayerAI(roll)} :
             \E after \in {AfterPlayerAI(before)} :
                 /\ after.shots = shots'
                 /\ WithoutFire(after) = WithoutFire(before)
                 /\ Len(after.bullets) >= Len(before.bullets)
                 /\ SubSeq(after.bullets, 1, Len(before.bullets)) = before.bullets
                 /\ SubSeq(after.bulletVelocities, 1, Len(before.bullets))
                        = before.bulletVelocities
                 /\ SubSeq(after.bulletTimers, 1, Len(before.bullets))
                        = before.bulletTimers
                 /\ SubSeq(after.bulletShooters, 1, Len(before.bullets))
                        = before.bulletShooters
                 /\ \A s \in Range(before.ships) :
                        \E new \in {{i \in Len(before.bullets) + 1 .. Len(after.bullets) :
                                        after.bulletShooters[i] = s}} :
                            /\ Cardinality(new) <= 1
                            /\ new = {} =>
                                   after.shipObjs[s].lastFireTime
                                       = before.shipObjs[s].lastFireTime
                            /\ \A i \in new :
                                   /\ before.shipObjs[s].type # "enemy"
                                   /\ InWeaponRange(before, s) # {}
                                   /\ after.bullets[i] =
                                          [id |-> <<s, now'>>,
                                           pos |-> before.shipObjs[s].pos]
                                   /\ after.bulletVelocities[i] =
                                          ScaleTo(VSub(before.shipObjs[
                                                           NearestHostile(before, s)].pos,
                                                       before.shipObjs[s].pos),
                                                  bulletSpeed)
                                   /\ after.bulletTimers[i] = bulletLifetime
                                   /\ after.shipObjs[s].lastFireTime = now'
      ]_vars

\* A frame in which a player ship on its way to a waypoint fired at an enemy.
C33_Witness ==
    /\ lastOp = "update"
    /\ \E i \in 1..Len(shots) :
           /\ shots[i].fired
           /\ shots[i].shooter \in Range(ships)
           /\ shipObjs[shots[i].shooter].type # "enemy"
           /\ shipObjs[shots[i].shooter].target # <<>>
           /\ shipObjs[shots[i].shooter].lastFireTime = now

\* The world of the frame that ends in the next state when its loop over the
\* ship list reaches index k: the ships before k steered.
RECURSIVE ShipsSteeredBefore(_)
ShipsSteeredBefore(k) ==
    IF k <= 1 THEN World
    ELSE updateShip(ShipsSteeredBefore(k - 1), ships[k - 1], lastDelta')

\* The world w without the record of ship s.
WithoutShip(w, s) ==
    [w EXCEPT !.shipObjs = [x \in DOMAIN @ \ {s} |-> @[x]]]

\* C34: the steering update of one ship in a frame leaves every other ship's
\* record (position, rotation, speed, target, waypoint queue and the rest),
\* the projectile arrays, the selection and the ship lists as they were.
C34_SteeringLocal ==
    [][lastOp' = "update" =>
         /\ \A k \in 1..Len(ships) :
                \E before \in {ShipsSteeredBefore(k)} :
                \E after \in {updateShip(before, ships[k], lastDelta')} :
                    /\ WithoutShip(after, ships[k]) = WithoutShip(before, ships[k])
                    /\ after.ships = ships
         /\ ShipsSteeredBefore(Len(ships) + 1) = updateShipsFrom(World, 1, lastDelta')
      ]_vars

\* A frame that left a ship under way with a follower behind it and a
\* projectile in flight.
C34_Witness ==
    /\ lastOp = "update"
    /\ bullets # <<>>
    /\ \E s, t \in Range(ships) :
           /\ s # t
           /\ shipObjs[s].currentSpeed > 0
           /\ shipObjs[s].target # <<>>
           /\ shipObjs[t].followTarget = s

\* The projectiles of the state whose shooter is not in the ship list the
\* next state has: destroyed before the frame or in it.
Orphans == {j \in 1..Len(bullets) : bulletShooters[j] \notin Range(ships')}

\* C35: a projectile whose shooter has been destroyed is treated by a frame
\* as any other: it leaves the arrays only on expiry, on leaving the world or
\* on its own hit, otherwise it stays with its velocity and shooter entry,
\* moved by velocity * delta and aged by delta; and a hit of such a
\* projectile takes the weapon damage of its shooter's type.
C35_OrphanProjectile ==
    [][lastOp' = "update" =>
         \A j \in Orphans :
             LET id == bullets[j].id
                 out == {k \in 1..Len(removed') : removed'[k].id = id}
                 own == {h \in 1..Len(hits') : hits'[h].bullet = id}
             IN  /\ \A k \in out :
                        \/ /\ removed'[k].cause = "expired"
                           /\ bulletTimers[j] - lastDelta' <= 0
                        \/ /\ removed'[k].cause = "bounds"
                           /\ OutOfWorld(MovedTo(j, lastDelta'))
                        \/ /\ removed'[k].cause = "hit"
                           /\ own # {}
                 /\ out = {} =>
                        \E i \in 1..Len(bullets') :
                            /\ bullets'[i] = [id |-> id,
                                              pos |-> MovedTo(j, lastDelta')]
                            /\ bulletTimers'[i] = bulletTimers[j] - lastDelta'
                            /\ bulletVelocities'[i] = bulletVelocities[j]
                            /\ bulletShooters'[i] = bulletShooters[j]
                 /\ \A h \in own :
                        hits'[h].damage =
                            ShipData(shipObjs[bulletShooters[j]].type,
                                     corvetteSpeed).damage
      ]_vars

\* A frame left in flight a projectile whose shooter is no longer in the ship
\* list.
C35_Witness ==
    /\ lastOp = "update"
    /\ \E i \in 1..Len(bullets) : bulletShooters[i] \notin Range(ships)

\* A projectile hit a ship in a frame after its shooter was destroyed.
C35_WitnessHit ==
    /\ lastOp = "update"
    /\ \E h \in 1..Len(hits) :
           /\ hits[h].bullet[1] \notin Range(ships)
           /\ \A d \in 1..Len(destroyed) : destroyed[d].ship # hits[h].bullet[1]

\* The damage effects a frame of delta ms has to deal with, each with the
\* timer the frame's decrement leaves: those of the state, then one per hit
\* of the frame, at the place the hit ship had after the frame's movement,
\* created with damageEffectDuration.
EffectsDue(objs, delta) ==
    [i \in 1..Len(damageEffects) |->
        [pos |-> damageEffects[i], timer |-> damageEffectTimers[i] - delta]]
      \o [h \in 1..Len(hits') |->
            [pos |-> objs[hits'[h].ship].pos,
             timer |-> damageEffectDuration - delta]]

\* C36: every hit of a frame creates one damage effect with a timer of
\* damageEffectDuration (500 ms); the frame takes delta off the timer of
\* every effect, those it created included, and removes exactly the effects
\* whose timer is then <= 0, so that every effect of a state has a timer > 0.
C36_EffectDecay ==
    /\ [](\A i \in 1..Len(damageEffectTimers) : damageEffectTimers[i] > 0)
    /\ [][lastOp' = "update" =>
            \E due \in {EffectsDue(AfterMovement(lastDelta'), lastDelta')} :
            \E live \in {SelectSeq(due, LAMBDA e : e.timer > 0)} :
                /\ Len(damageEffects') = Len(live)
                /\ Len(damageEffectTimers') = Len(live)
                /\ \A i \in 1..Len(live) :
                       /\ damageEffects'[i] = live[i].pos
                       /\ damageEffectTimers'[i] = live[i].timer
         ]_vars

\* A frame with a hit left the effect of the hit, aged by the frame, and
\* an older effect beside it.
C36_Witness ==
    /\ lastOp = "update"
    /\ hits # <<>>
    /\ Len(damageEffects) >= 2
    /\ damageEffectTimers[Len(damageEffectTimers)]
           = damageEffectDuration - lastDelta
    /\ damageEffectTimers[1] < damageEffectDuration - lastDelta

\* C37: in every state the waypoint list and the waypoint-rotation list of
\* every ship have the same length.
C37_QueuesAligned ==
    \A s \in Range(ships) :
        Len(shipObjs[s].waypoints) = Len(shipObjs[s].waypointDirections)

\* C38: in every state the enemy list holds exactly the ships of the ship
\* list that are of the enemy type, each once, and every key of the orbit
\* map, of the wander-timer map and of the wander-direction map is a ship of
\* the ship list.
C38_ListsAgree ==
    /\ Range(enemyShips) = {s \in Range(ships) : shipObjs[s].type = "enemy"}
    /\ Cardinality(Range(enemyShips)) = Len(enemyShips)
    /\ DOMAIN circularPaths \subseteq Range(ships)
    /\ DOMAIN enemyMovementTimers \subseteq Range(ships)
    /\ DOMAIN enemyMovementDirections \subseteq Range(ships)

\* A frame destroyed an enemy and left a player ship on an orbit.
C38_Witness ==
    /\ lastOp = "update"
    /\ \E i \in 1..Len(destroyed) : shipObjs[destroyed[i].ship].type = "enemy"
    /\ circularPaths # <<>>

\* A frame destroyed an enemy that had wandered.
C38_WitnessWander ==
    /\ lastOp = "update"
    /\ \E i \in 1..Len(destroyed) : shipObjs[destroyed[i].ship].type = "enemy"
    /\ enemyShips = <<>>
    /\ ships # <<>>

\* C39: in every state the four projectile arrays have the same length and
\* the two damage-effect arrays have the same length, and the entries at one
\* index stay those of one projectile: a projectile a frame keeps has at its
\* new index the velocity and the shooter it had and its timer less delta,
\* whatever the frame removed, and a projectile the frame spawned has its
\* shooter, the bulletLifetime less delta and a velocity of its own.
C39_ArraysAligned ==
    /\ [](/\ Len(bulletVelocities) = Len(bullets)
          /\ Len(bulletTimers) = Len(bullets)
          /\ Len(bulletShooters) = Len(bullets)
          /\ Len(damageEffectTimers) = Len(damageEffects)
          /\ \A i \in 1..Len(bullets) : bulletShooters[i] = bullets[i].id[1]
          /\ \A i, j \in 1..Len(bullets) :
                 bullets[i].id = bullets[j].id => i = j)
    /\ [][lastOp' = "update" =>
            \E objs \in {AfterMovement(lastDelta')} :
            \A i \in 1..Len(bullets') :
                \E old \in {{j \in 1..Len(bullets) :
                               bullets[j].id = bullets'[i].id}} :
                    /\ \A j \in old :
                           /\ bulletVelocities'[i] = bulletVelocities[j]
                           /\ bulletTimers'[i] = bulletTimers[j] - lastDelta'
                           /\ bulletShooters'[i] = bulletShooters[j]
                           /\ bullets'[i].pos = MovedTo(j, lastDelta')
                    /\ old = {} =>
                           /\ bullets'[i].id[2] = now'
                           /\ bulletTimers'[i] = bulletLifetime - lastDelta'
                           /\ bulletShooters'[i] = bullets'[i].id[1]
                           /\ bullets'[i].pos =
                                  <<objs[bulletShooters'[i]].pos[1]
                                        + DivT(bulletVelocities'[i][1] * lastDelta', 1000),
                                    objs[bulletShooters'[i]].pos[2]
                                        + DivT(bulletVelocities'[i][2] * lastDelta', 1000)>>
         ]_vars

\* A frame removed a projectile on a hit, kept an older projectile and
\* spawned a new one.
C39_Witness ==
    /\ lastOp = "update"
    /\ \E k \in 1..Len(removed) : removed[k].cause = "hit"
    /\ \E i, j \in 1..Len(bullets) :
           /\ bullets[i].id[2] = now
           /\ bullets[j].id[2] < now

=============================================================================
